---- MODULE Spec2Model ----
(***************************************************************************)
(* The level-based address index of blockchain/indexers/addrindex.go:      *)
(* dbPutAddrIndexEntry, dbFetchAddrIndexEntries, dbRemoveAddrIndexEntries  *)
(* and their helpers, over a key/value bucket whose values are byte        *)
(* strings.  Byte strings are sequences of numbers 0..255.                 *)
(***************************************************************************)
EXTENDS Integers, Sequences, FiniteSets, TLC

\* ------------------------------------------------------------ bounds

\* The largest number of entries the model stores for one address.
MaxEntries == 57

\* The number of transactions of one block that involve the address.
TxPerBlock == 3

\* ------------------------------------------------- program constants

level0MaxEntries == 8

txEntrySize == 16

addrKeySize == 1 + 20

levelKeySize == addrKeySize + 1

levelOffset == levelKeySize - 1

addrKeyTypePubKeyHash == 0

\* A uint32 that may be large (numToSkip, numRequested) is kept as two
\* 16-bit halves, <<high, low>>, so that its arithmetic wraps modulo 2^32.
Half == 65536

U32Of(n) == << n \div Half, n % Half >>

\* The number a uint32 below 2^31 stands for.
IntOf(x) == x[1] * Half + x[2]

MaxU32 == << Half - 1, Half - 1 >>

\* uint32 addition.
Add32(x, y) ==
    << (x[1] + y[1] + ((x[2] + y[2]) \div Half)) % Half, (x[2] + y[2]) % Half >>

Lt32(x, y) == x[1] < y[1] \/ (x[1] = y[1] /\ x[2] < y[2])

Ge32(x, y) == ~Lt32(x, y)

\* The nil error.
NoErr == "nil"

ErrAssert == "AssertError"

ErrCorruption == "ErrCorruption"

\* ------------------------------------------------------- byte strings

Min(a, b) == IF a < b THEN a ELSE b

\* s[from:to] of Go, with 0-based from (inclusive) and to (exclusive).
Slice(s, from, to) == SubSeq(s, from + 1, to)

\* byteOrder.PutUint32: four bytes, most significant first.
PutUint32(v) ==
    << (v \div 16777216) % 256, (v \div 65536) % 256, (v \div 256) % 256, v % 256 >>

\* byteOrder.Uint32 of the first four bytes of b.
Uint32(b) == b[1] * 16777216 + b[2] * 65536 + b[3] * 256 + b[4]

\* ------------------------------------------------------------- bucket

\* A bucket is a function from the keys it holds to their values.
EmptyBucket == << >>

\* bucket.Get: the value of the key, nil (length 0) when the key is absent.
Get(b, key) == IF key \in DOMAIN b THEN b[key] ELSE << >>

\* Whether bucket.Get returns a non-nil value.
Has(b, key) == key \in DOMAIN b

Put(b, key, value) ==
    [k \in (DOMAIN b) \cup {key} |-> IF k = key THEN value ELSE b[k]]

Delete(b, key) == [k \in (DOMAIN b) \ {key} |-> b[k]]

\* -------------------------------------------------------- entry codec

serializeAddrIndexEntry(blockID, txLoc, blockIndex) ==
    PutUint32(blockID) \o PutUint32(txLoc.TxStart)
        \o PutUint32(txLoc.TxLen) \o PutUint32(blockIndex)

\* The hash of the block that the block ID index knows by this ID.
BlockHashByID(blockID) == << "hash", blockID >>

\* The callback that converts a serialized block ID to the block's hash.
fetchBlockHash(serializedID) == BlockHashByID(Uint32(serializedID))

\* The decoded entry, or the deserialize error.
deserializeAddrIndexEntry(serialized) ==
    IF Len(serialized) < txEntrySize
    THEN [err |-> "errDeserialize", entry |-> << >>]
    ELSE [err |-> NoErr,
          entry |-> [BlockRegion |-> [Hash |-> fetchBlockHash(Slice(serialized, 0, 4)),
                                      Offset |-> Uint32(Slice(serialized, 4, 8)),
                                      Len |-> Uint32(Slice(serialized, 8, 12))],
                     BlockIndex |-> Uint32(Slice(serialized, 12, 16))]]

\* ---------------------------------------------------------- key codec

\* keyForLevel with the type byte of the address key left out.
keyForLevelTypeless(addrKey, level) ==
    [i \in 1..levelKeySize |->
        IF i = levelOffset + 1 THEN level ELSE IF i = 1 THEN 0 ELSE addrKey[i]]

keyForLevel(addrKey, level) ==
    [i \in 1..levelKeySize |-> IF i = levelOffset + 1 THEN level ELSE addrKey[i]]

\* ------------------------------------------------------------- insert

\* putMoveUp that moves the lowest level first.
RECURSIVE putMoveUpLowestFirst(_, _, _)
putMoveUpLowestFirst(b, addrKey, mergeLevel) ==
    IF mergeLevel > 0
    THEN LET lower == putMoveUpLowestFirst(b, addrKey, mergeLevel - 1)
         IN Put(lower, keyForLevel(addrKey, mergeLevel),
                Get(lower, keyForLevel(addrKey, mergeLevel - 1)))
    ELSE b

\* putMoveUp that moves no level.
putMoveUpNone(b, addrKey, mergeLevel) == b

\* The loop that moves the levels below the merged one up a level.
RECURSIVE putMoveUp(_, _, _)
putMoveUp(b, addrKey, mergeLevel) ==
    IF mergeLevel > 0
    THEN LET prevData == Get(b, keyForLevel(addrKey, mergeLevel - 1))
         IN putMoveUp(Put(b, keyForLevel(addrKey, mergeLevel), prevData),
                      addrKey, mergeLevel - 1)
    ELSE b

\* putMergedData with the current level's data dropped.
putMergedDataPrevOnly(curLevelData, prevLevelData) == prevLevelData

\* putMergedData with the previous level's data put first.
putMergedDataPrevFirst(curLevelData, prevLevelData) ==
    IF Len(curLevelData) > 0 THEN prevLevelData \o curLevelData ELSE prevLevelData

\* The previous level's data merged into the current level's.
putMergedData(curLevelData, prevLevelData) ==
    IF Len(curLevelData) > 0 THEN curLevelData \o prevLevelData ELSE prevLevelData

\* putMerge with the maximum of the next level not doubled.
RECURSIVE putMergeNoDoubling(_, _, _, _, _)
putMergeNoDoubling(b, addrKey, curLevel, maxLevelBytes, prevLevelData) ==
    LET curLevelKey == keyForLevel(addrKey, curLevel)
        curLevelData == Get(b, curLevelKey)
    IN IF Len(curLevelData) = maxLevelBytes
       THEN putMergeNoDoubling(b, addrKey, curLevel + 1, maxLevelBytes, curLevelData)
       ELSE putMoveUp(Put(b, curLevelKey, putMergedData(curLevelData, prevLevelData)),
                      addrKey, curLevel - 1)

\* One iteration of the merge loop, entered with curLevel and maxLevelBytes
\* already advanced.
RECURSIVE putMerge(_, _, _, _, _)
putMerge(b, addrKey, curLevel, maxLevelBytes, prevLevelData) ==
    LET curLevelKey == keyForLevel(addrKey, curLevel)
        curLevelData == Get(b, curLevelKey)
    IN IF Len(curLevelData) = maxLevelBytes
       THEN putMerge(b, addrKey, curLevel + 1, maxLevelBytes * 2, curLevelData)
       ELSE putMoveUp(Put(b, curLevelKey, putMergedData(curLevelData, prevLevelData)),
                      addrKey, curLevel - 1)

\* dbPutAddrIndexEntry with the fit in level 0 decided without the new entry.
dbPutAddrIndexEntryNoRoom(b, addrKey, blockID, txLoc, blockIndex) ==
    LET maxLevelBytes == level0MaxEntries * txEntrySize
        newData == serializeAddrIndexEntry(blockID, txLoc, blockIndex)
        level0Key == keyForLevel(addrKey, 0)
        level0Data == Get(b, level0Key)
    IN IF Len(level0Data) <= maxLevelBytes
       THEN Put(b, level0Key, level0Data \o newData)
       ELSE Put(putMerge(b, addrKey, 1, maxLevelBytes * 2, level0Data),
                level0Key, newData)

\* dbPutAddrIndexEntry with the new entry put before the data of level 0.
dbPutAddrIndexEntryNewFirst(b, addrKey, blockID, txLoc, blockIndex) ==
    LET maxLevelBytes == level0MaxEntries * txEntrySize
        newData == serializeAddrIndexEntry(blockID, txLoc, blockIndex)
        level0Key == keyForLevel(addrKey, 0)
        level0Data == Get(b, level0Key)
    IN IF Len(level0Data) + Len(newData) <= maxLevelBytes
       THEN Put(b, level0Key, newData \o level0Data)
       ELSE Put(putMerge(b, addrKey, 1, maxLevelBytes * 2, level0Data),
                level0Key, newData)

dbPutAddrIndexEntry(b, addrKey, blockID, txLoc, blockIndex) ==
    LET maxLevelBytes == level0MaxEntries * txEntrySize
        newData == serializeAddrIndexEntry(blockID, txLoc, blockIndex)
        level0Key == keyForLevel(addrKey, 0)
        level0Data == Get(b, level0Key)
    IN IF Len(level0Data) + Len(newData) <= maxLevelBytes
       THEN Put(b, level0Key, level0Data \o newData)
       ELSE Put(putMerge(b, addrKey, 1, maxLevelBytes * 2, level0Data),
                level0Key, newData)

\* -------------------------------------------------------------- fetch

\* A newly loaded level goes before the levels loaded so far.
fetchPrepended(levelData, serialized) == levelData \o serialized

\* The level loading loop: the bytes of the loaded levels, oldest first.
\* wantEntries is the uint32 sum numToSkip+numRequested; the int comparison
\* len(serialized) < int(wantEntries)*txEntrySize is the same as
\* len(serialized)/txEntrySize < wantEntries.
RECURSIVE fetchLoad(_, _, _, _, _, _)
fetchLoad(b, addrKey, level, serialized, reverse, wantEntries) ==
    IF (~reverse) \/ Lt32(U32Of(Len(serialized) \div txEntrySize), wantEntries)
    THEN LET curLevelKey == keyForLevel(addrKey, level)
         IN IF ~Has(b, curLevelKey)
            THEN serialized
            ELSE fetchLoad(b, addrKey, (level + 1) % 256,
                           fetchPrepended(Get(b, curLevelKey), serialized),
                           reverse, wantEntries)
    ELSE serialized

\* The read offset of result i; numToSkip + i < numEntries here.
fetchOffset(numEntries, numToSkip, i, reverse) ==
    IF reverse
    THEN (numEntries - numToSkip - i - 1) * txEntrySize
    ELSE (numToSkip + i) * txEntrySize

\* The decoding of result i from its read offset.  deserializeAddrIndexEntry
\* reads no byte of serialized[offset:] after its first txEntrySize ones, so
\* only those are handed to it.
fetchDecodeAt(serialized, numEntries, numToSkip, i, reverse) ==
    LET offset == fetchOffset(numEntries, numToSkip, i, reverse)
    IN deserializeAddrIndexEntry(
           Slice(serialized, offset, Min(offset + txEntrySize, Len(serialized))))

\* The decode loop over i in 0..numToLoad-1: all the results, or the error
\* of the first one that fails to decode (each failure is returned as a
\* corruption error).
fetchDecode(serialized, numEntries, numToSkip, numToLoad, reverse) ==
    LET decoded == [i \in 1..numToLoad |->
                      fetchDecodeAt(serialized, numEntries, numToSkip, i - 1, reverse)]
    IN IF \E i \in 1..numToLoad : decoded[i].err # NoErr
       THEN [entries |-> << >>, skipped |-> U32Of(0), err |-> ErrCorruption]
       ELSE [entries |-> [i \in 1..numToLoad |-> decoded[i].entry],
             skipped |-> U32Of(numToSkip), err |-> NoErr]

\* fetchNumToLoad without the limit of the number requested.
fetchNumToLoadAll(numEntries, numToSkip, numRequested) ==
    numEntries - IntOf(numToSkip)

\* The number of entries to load: those available after the skipped ones,
\* at most the number requested.
fetchNumToLoad(numEntries, numToSkip, numRequested) ==
    IF Lt32(numRequested, U32Of(numEntries - IntOf(numToSkip)))
    THEN IntOf(numRequested)
    ELSE numEntries - IntOf(numToSkip)

\* numToSkip and numRequested are uint32s in halves; so is the number
\* skipped that is returned.
dbFetchAddrIndexEntries(b, addrKey, numToSkip, numRequested, reverse) ==
    LET serialized == fetchLoad(b, addrKey, 0, << >>, reverse,
                                Add32(numToSkip, numRequested))
        numEntries == Len(serialized) \div txEntrySize
    IN IF Ge32(numToSkip, U32Of(numEntries))
       THEN [entries |-> << >>, skipped |-> U32Of(numEntries), err |-> NoErr]
       ELSE IF numRequested = U32Of(0)
       THEN [entries |-> << >>, skipped |-> numToSkip, err |-> NoErr]
       ELSE fetchDecode(serialized, numEntries, IntOf(numToSkip),
                        fetchNumToLoad(numEntries, numToSkip, numRequested), reverse)

\* ------------------------------------------------------------- remove

RECURSIVE minEntriesFrom(_, _, _, _)
minEntriesFrom(l, level, maxEntries, minRequired) ==
    IF l <= level
    THEN minEntriesFrom(l + 1, level, maxEntries * 2, minRequired + maxEntries)
    ELSE minRequired

\* minEntriesToReachLevel without the one entry that opens the level.
minEntriesToReachLevelFromZero(level) == minEntriesFrom(1, level, level0MaxEntries, 0)

minEntriesToReachLevel(level) == minEntriesFrom(1, level, level0MaxEntries, 1)

\* maxEntriesForLevel with one doubling too few.
RECURSIVE maxEntriesForLevelOneLess(_)
maxEntriesForLevelOneLess(level) ==
    IF level > 1 THEN 2 * maxEntriesForLevelOneLess(level - 1) ELSE level0MaxEntries

RECURSIVE maxEntriesForLevel(_)
maxEntriesForLevel(level) ==
    IF level > 0 THEN 2 * maxEntriesForLevel(level - 1) ELSE level0MaxEntries

\* pendingUpdates[level], nil when the map has no such level.
PendingGet(pendingUpdates, level) ==
    IF level \in DOMAIN pendingUpdates THEN pendingUpdates[level] ELSE << >>

PendingSet(pendingUpdates, level, data) ==
    [l \in (DOMAIN pendingUpdates) \cup {level} |->
        IF l = level THEN data ELSE pendingUpdates[l]]

\* applyPending over the levels not yet applied (the map is ranged over in
\* any order; the levels are distinct keys, so the order does not matter).
RECURSIVE applyPendingLevels(_, _, _, _)
applyPendingLevels(b, addrKey, pendingUpdates, levels) ==
    IF levels = {}
    THEN b
    ELSE LET level == CHOOSE l \in levels : TRUE
             curLevelKey == keyForLevel(addrKey, level)
             data == pendingUpdates[level]
         IN applyPendingLevels(IF Len(data) = 0
                               THEN Delete(b, curLevelKey)
                               ELSE Put(b, curLevelKey, data),
                               addrKey, pendingUpdates, levels \ {level})

\* applyPending that puts the data of a level when it is empty too.
applyPendingPutEmpty(b, addrKey, pendingUpdates) ==
    [k \in (DOMAIN b) \cup {keyForLevel(addrKey, l) : l \in DOMAIN pendingUpdates} |->
        IF \E l \in DOMAIN pendingUpdates : k = keyForLevel(addrKey, l)
        THEN pendingUpdates[CHOOSE l \in DOMAIN pendingUpdates : k = keyForLevel(addrKey, l)]
        ELSE b[k]]

applyPending(b, addrKey, pendingUpdates) ==
    applyPendingLevels(b, addrKey, pendingUpdates, DOMAIN pendingUpdates)

\* removeOffsetEnd that keeps as many entries as are to be removed.
removeOffsetEndKeepCount(curLevelData, numRemaining) ==
    numRemaining * txEntrySize

\* removeOffsetEnd with the count taken for a number of bytes.
removeOffsetEndInBytes(curLevelData, numRemaining) ==
    Len(curLevelData) - numRemaining

\* Where the data kept of a partly removed level ends.
removeOffsetEnd(curLevelData, numRemaining) ==
    Len(curLevelData) - (numRemaining * txEntrySize)

\* The loop that removes entries level by level, from level 0 upwards.
RECURSIVE removeTrim(_, _, _, _, _, _)
removeTrim(b, addrKey, level, numRemaining, pendingUpdates, highestLoadedLevel) ==
    IF numRemaining > 0
    THEN LET curLevelData == Get(b, keyForLevel(addrKey, level))
             numEntries == Len(curLevelData) \div txEntrySize
         IN IF Len(curLevelData) = 0
            THEN [err |-> ErrAssert, pendingUpdates |-> pendingUpdates,
                  highestLoadedLevel |-> highestLoadedLevel]
            ELSE IF numRemaining >= numEntries
            THEN removeTrim(b, addrKey, level + 1, numRemaining - numEntries,
                            PendingSet(pendingUpdates, level, << >>), level)
            ELSE LET offsetEnd == removeOffsetEnd(curLevelData, numRemaining)
                 IN [err |-> NoErr,
                     pendingUpdates |-> PendingSet(pendingUpdates, level,
                                                   Slice(curLevelData, 0, offsetEnd)),
                     highestLoadedLevel |-> level]
    ELSE [err |-> NoErr, pendingUpdates |-> pendingUpdates,
          highestLoadedLevel |-> highestLoadedLevel]

\* squashOffset that keeps half a level in every case.
squashOffsetHalf(numEntries, curLevelMaxEntries, prevLevelMaxEntries, minPrevRequired) ==
    prevLevelMaxEntries * txEntrySize

\* How much of the data stays in a level that keeps entries: a full level
\* when enough entries remain after it to reach the level, else half of one.
squashOffset(numEntries, curLevelMaxEntries, prevLevelMaxEntries, minPrevRequired) ==
    IF numEntries - curLevelMaxEntries >= minPrevRequired
    THEN curLevelMaxEntries * txEntrySize
    ELSE prevLevelMaxEntries * txEntrySize

\* The loop that squashes what is left of the highest loaded level into the
\* lowest possible levels, from that level down to level 1.
RECURSIVE removeSquash(_, _, _, _, _)
removeSquash(level, pendingUpdates, curLevelData, curLevelMaxEntries, lowestEmptyLevel) ==
    IF level > 0
    THEN LET numEntries == Len(curLevelData) \div txEntrySize
             prevLevelMaxEntries == curLevelMaxEntries \div 2
             minPrevRequired == minEntriesToReachLevel(level - 1)
         IN IF numEntries < prevLevelMaxEntries + minPrevRequired
            THEN removeSquash(level - 1, PendingSet(pendingUpdates, level, << >>),
                              curLevelData, prevLevelMaxEntries, level)
            ELSE LET offset == squashOffset(numEntries, curLevelMaxEntries,
                                                prevLevelMaxEntries, minPrevRequired)
                 IN removeSquash(level - 1,
                                 PendingSet(pendingUpdates, level,
                                            Slice(curLevelData, 0, offset)),
                                 Slice(curLevelData, offset, Len(curLevelData)),
                                 prevLevelMaxEntries, lowestEmptyLevel)
    ELSE [pendingUpdates |-> PendingSet(pendingUpdates, 0, curLevelData),
          lowestEmptyLevel |-> IF Len(curLevelData) = 0 THEN 0 ELSE lowestEmptyLevel]

\* removeHalve with a quarter of the level's maximum kept in each level.
RECURSIVE removeHalveQuarter(_, _, _, _, _)
removeHalveQuarter(level, pendingUpdates, levelData, curLevelMaxEntries, lowestEmptyLevel) ==
    IF level > lowestEmptyLevel
    THEN LET offset == (curLevelMaxEntries \div 4) * txEntrySize
             rest == Slice(levelData, offset, Len(levelData))
         IN removeHalveQuarter(level - 1,
                               PendingSet(PendingSet(pendingUpdates, level,
                                                     Slice(levelData, 0, offset)),
                                          level - 1, rest),
                               rest, curLevelMaxEntries \div 2, lowestEmptyLevel)
    ELSE pendingUpdates

\* The loop that halves the loaded data into the empty levels below it.
RECURSIVE removeHalve(_, _, _, _, _)
removeHalve(level, pendingUpdates, levelData, curLevelMaxEntries, lowestEmptyLevel) ==
    IF level > lowestEmptyLevel
    THEN LET offset == (curLevelMaxEntries \div 2) * txEntrySize
             rest == Slice(levelData, offset, Len(levelData))
         IN removeHalve(level - 1,
                        PendingSet(PendingSet(pendingUpdates, level,
                                              Slice(levelData, 0, offset)),
                                   level - 1, rest),
                        rest, curLevelMaxEntries \div 2, lowestEmptyLevel)
    ELSE pendingUpdates

\* removeBackfill that loads no further level.
removeBackfillNone(b, addrKey, pendingUpdates, highestLoadedLevel, lowestEmptyLevel) ==
    pendingUpdates

\* The loop that backfills from the level after the highest loaded one while
\* the highest loaded level is empty.
RECURSIVE removeBackfill(_, _, _, _, _)
removeBackfill(b, addrKey, pendingUpdates, highestLoadedLevel, lowestEmptyLevel) ==
    IF Len(PendingGet(pendingUpdates, highestLoadedLevel)) = 0
    THEN LET level == highestLoadedLevel + 1
             levelData == Get(b, keyForLevel(addrKey, level))
             curLevelMaxEntries == maxEntriesForLevel(level)
             half == (Len(levelData) \div txEntrySize) # curLevelMaxEntries
             loaded == PendingSet(pendingUpdates, level, levelData)
             moved == IF half
                      THEN PendingSet(PendingSet(loaded, level, << >>),
                                      level - 1, levelData)
                      ELSE loaded
         IN IF Len(levelData) = 0
            THEN pendingUpdates
            ELSE removeBackfill(b, addrKey,
                                removeHalve(IF half THEN level - 1 ELSE level, moved,
                                            levelData,
                                            IF half THEN curLevelMaxEntries \div 2
                                                    ELSE curLevelMaxEntries,
                                            lowestEmptyLevel),
                                level, level)
    ELSE pendingUpdates

\* dbRemoveAddrIndexEntries with the pending updates applied before the
\* assertion error is returned.
dbRemoveAddrIndexEntriesApplyFirst(b, addrKey, count) ==
    IF count <= 0
    THEN [bucket |-> b, err |-> NoErr]
    ELSE LET t == removeTrim(b, addrKey, 0, count, << >>, 0)
         IN IF t.err # NoErr
            THEN [bucket |-> applyPending(b, addrKey, t.pendingUpdates), err |-> t.err]
            ELSE IF Len(PendingGet(t.pendingUpdates, 0)) # 0
            THEN [bucket |-> applyPending(b, addrKey, t.pendingUpdates), err |-> NoErr]
            ELSE LET s == removeSquash(t.highestLoadedLevel, t.pendingUpdates,
                                       PendingGet(t.pendingUpdates, t.highestLoadedLevel),
                                       maxEntriesForLevel(t.highestLoadedLevel), 255)
                     p == removeBackfill(b, addrKey, s.pendingUpdates,
                                         t.highestLoadedLevel, s.lowestEmptyLevel)
                 IN [bucket |-> applyPending(b, addrKey, p), err |-> NoErr]

\* The new bucket and the error returned.
dbRemoveAddrIndexEntries(b, addrKey, count) ==
    IF count <= 0
    THEN [bucket |-> b, err |-> NoErr]
    ELSE LET t == removeTrim(b, addrKey, 0, count, << >>, 0)
         IN IF t.err # NoErr
            THEN [bucket |-> b, err |-> t.err]
            ELSE IF Len(PendingGet(t.pendingUpdates, 0)) # 0
            THEN [bucket |-> applyPending(b, addrKey, t.pendingUpdates), err |-> NoErr]
            ELSE LET s == removeSquash(t.highestLoadedLevel, t.pendingUpdates,
                                       PendingGet(t.pendingUpdates, t.highestLoadedLevel),
                                       maxEntriesForLevel(t.highestLoadedLevel), 255)
                     p == removeBackfill(b, addrKey, s.pendingUpdates,
                                         t.highestLoadedLevel, s.lowestEmptyLevel)
                 IN [bucket |-> applyPending(b, addrKey, p), err |-> NoErr]

\* ----------------------------------------------------- address keys

addrKeyTypePubKeyHashEdwards == 1

addrKeyTypePubKeyHashSchnorr == 2

addrKeyTypeScriptHash == 3

errUnsupportedAddressType == "errUnsupportedAddressType"

\* The hash160 values in use, and their 20 bytes.
Hashes == {1, 2}

Hash160(h) == [j \in 1..(addrKeySize - 1) |-> (37 * (j + 1) + 101 * (h - 1)) % 256]

\* The Go types of an address.  The public key types implement
\* stdaddr.AddressPubKeyHasher; the last type stands for every address type
\* addrToKey has no case for.
PubKeyTypes ==
    {"AddressPubKeyEcdsaSecp256k1V0", "AddressPubKeyEd25519V0",
     "AddressPubKeySchnorrSecp256k1V0"}

AddressTypes ==
    PubKeyTypes \cup
    {"AddressPubKeyHashEcdsaSecp256k1V0", "AddressPubKeyHashEd25519V0",
     "AddressPubKeyHashSchnorrSecp256k1V0", "AddressScriptHashV0", "AddressOther"}

\* An address: its type and the hash160 it carries (for a public key type,
\* the hash160 of its public key).
Addresses == [type : AddressTypes, hash : Hashes]

\* AddressPubKeyHash of a public key address: the public key hash address of
\* the same signature scheme for the hash160 of the public key.
AddressPubKeyHash(addr) ==
    [type |-> CASE addr.type = "AddressPubKeyEcdsaSecp256k1V0"
                     -> "AddressPubKeyHashEcdsaSecp256k1V0"
                [] addr.type = "AddressPubKeyEd25519V0"
                     -> "AddressPubKeyHashEd25519V0"
                [] addr.type = "AddressPubKeySchnorrSecp256k1V0"
                     -> "AddressPubKeyHashSchnorrSecp256k1V0",
     hash |-> addr.hash]

\* The key with the given type byte and hash160.
addrKeyOf(keyType, h) ==
    [i \in 1..addrKeySize |-> IF i = 1 THEN keyType ELSE Hash160(h)[i - 1]]

\* addrToKey with the key type byte left at 0 for every address type.
addrToKeyTypeless(addr) ==
    LET a == IF addr.type \in PubKeyTypes THEN AddressPubKeyHash(addr) ELSE addr
    IN IF a.type = "AddressOther"
       THEN [key |-> [i \in 1..addrKeySize |-> 0], err |-> errUnsupportedAddressType]
       ELSE [key |-> addrKeyOf(0, a.hash), err |-> NoErr]

addrToKey(addr) ==
    LET a == IF addr.type \in PubKeyTypes THEN AddressPubKeyHash(addr) ELSE addr
    IN CASE a.type = "AddressPubKeyHashEcdsaSecp256k1V0"
              -> [key |-> addrKeyOf(addrKeyTypePubKeyHash, a.hash), err |-> NoErr]
         [] a.type = "AddressPubKeyHashEd25519V0"
              -> [key |-> addrKeyOf(addrKeyTypePubKeyHashEdwards, a.hash), err |-> NoErr]
         [] a.type = "AddressPubKeyHashSchnorrSecp256k1V0"
              -> [key |-> addrKeyOf(addrKeyTypePubKeyHashSchnorr, a.hash), err |-> NoErr]
         [] a.type = "AddressScriptHashV0"
              -> [key |-> addrKeyOf(addrKeyTypeScriptHash, a.hash), err |-> NoErr]
         [] OTHER
              -> [key |-> [i \in 1..addrKeySize |-> 0], err |-> errUnsupportedAddressType]

\* ---------------------------------------------------- block indexing

\* A public key script, by what txscript.ExtractPkScriptAddrs and
\* stake.AddrFromSStxPkScrCommitment make of it: the script class
\* ("nonstandard" when the extraction fails), the addresses extracted, and
\* the commitment address (none when that extraction fails).
NoAddr == << >>

\* isDuplicate that never finds the transaction indexed already.
isDuplicateNever(indexedTxns, txIdx) == FALSE

\* Whether the most recent entry for the address is the transaction.
isDuplicate(indexedTxns, txIdx) ==
    Len(indexedTxns) > 0 /\ indexedTxns[Len(indexedTxns)] = txIdx

Script(class, addrs, commit) == [class |-> class, addrs |-> addrs, commit |-> commit]

\* indexPkScript's loop over addrs from the i-th address on.  (Here and in
\* the loops below, a step's result is a value before the next step starts:
\* CHOOSE r \in {Rest(d) : d \in {Step}} : TRUE is Rest(Step).)
RECURSIVE indexAddrs(_, _, _, _)
indexAddrs(data, addrs, i, txIdx) ==
    IF i > Len(addrs)
    THEN data
    ELSE LET k == addrToKey(addrs[i])
             indexedTxns == IF k.key \in DOMAIN data THEN data[k.key] ELSE << >>
         IN IF k.err # NoErr
            THEN indexAddrs(data, addrs, i + 1, txIdx)
            ELSE IF isDuplicate(indexedTxns, txIdx)
            THEN indexAddrs(data, addrs, i + 1, txIdx)
            ELSE indexAddrs(Put(data, k.key, Append(indexedTxns, txIdx)),
                            addrs, i + 1, txIdx)

indexPkScript(data, pkScript, txIdx, isSStx) ==
    IF pkScript.class = "nonstandard"
    THEN data
    ELSE IF isSStx /\ pkScript.class = "nulldata"
    THEN IF pkScript.commit = NoAddr
         THEN data
         ELSE indexAddrs(data, pkScript.addrs \o pkScript.commit, 1, txIdx)
    ELSE IF Len(pkScript.addrs) = 0
    THEN data
    ELSE indexAddrs(data, pkScript.addrs, 1, txIdx)

\* A transaction input, by what prevScripts.PrevScript returns for its
\* previous outpoint: whether the script was found, and the script.
TxIn(ok, pkScript) == [ok |-> ok, pkScript |-> pkScript]

\* A transaction: what the stake package determines it to be ("regular",
\* "ssgen", "sstx", "ssrtx", "treasurybase" or "tspend"), its inputs and the
\* public key scripts of its outputs.
Tx(kind, ins, outs) == [kind |-> kind, ins |-> ins, outs |-> outs]

\* The loop over the inputs of a transaction from the i-th (from 1) on:
\* the first input is skipped when skipFirst, every input when skipAll.
RECURSIVE indexTxIns(_, _, _, _, _, _)
indexTxIns(data, ins, i, txIdx, skipFirst, skipAll) ==
    IF i > Len(ins)
    THEN data
    ELSE IF (skipFirst /\ i = 1) \/ skipAll \/ ~ins[i].ok
    THEN indexTxIns(data, ins, i + 1, txIdx, skipFirst, skipAll)
    ELSE CHOOSE r \in {indexTxIns(d, ins, i + 1, txIdx, skipFirst, skipAll) :
                        d \in {indexPkScript(data, ins[i].pkScript, txIdx, FALSE)}} : TRUE

\* The loop over the outputs of a transaction from the i-th (from 1) on.
RECURSIVE indexTxOuts(_, _, _, _, _)
indexTxOuts(data, outs, i, txIdx, isSStx) ==
    IF i > Len(outs)
    THEN data
    ELSE CHOOSE r \in {indexTxOuts(d, outs, i + 1, txIdx, isSStx) :
                        d \in {indexPkScript(data, outs[i], txIdx, isSStx)}} : TRUE

\* indexBlock's loop over the regular transactions from index txIdx on.
RECURSIVE indexRegular(_, _, _)
indexRegular(data, regularTxns, txIdx) ==
    IF txIdx >= Len(regularTxns)
    THEN data
    ELSE LET tx == regularTxns[txIdx + 1]
             withIns == indexTxIns(data, tx.ins, 1, txIdx, FALSE, txIdx = 0)
         IN CHOOSE r \in {indexRegular(d, regularTxns, txIdx + 1) :
                              d \in {indexTxOuts(withIns, tx.outs, 1, txIdx, FALSE)}} : TRUE

\* indexBlock's loop over the stake transactions from index txIdx on.
RECURSIVE indexStake(_, _, _, _, _)
indexStake(data, stakeTxns, txIdx, numRegular, isTreasuryEnabled) ==
    IF txIdx >= Len(stakeTxns)
    THEN data
    ELSE LET tx == stakeTxns[txIdx + 1]
             thisTxOffset == txIdx + numRegular
             isSSGen == tx.kind = "ssgen"
             isTreasuryBase == isTreasuryEnabled /\ ~isSSGen /\ tx.kind = "treasurybase"
             isTSpend == isTreasuryEnabled /\ ~isTreasuryBase /\ tx.kind = "tspend"
             withIns == indexTxIns(data, tx.ins, 1, thisTxOffset, isSSGen,
                                   isTreasuryBase \/ isTSpend)
         IN CHOOSE r \in {indexStake(d, stakeTxns, txIdx + 1, numRegular, isTreasuryEnabled) :
                              d \in {indexTxOuts(withIns, tx.outs, 1, thisTxOffset,
                                                 tx.kind = "sstx")}} : TRUE

\* A block: its regular and its stake transactions.
Block(regular, stake) == [Transactions |-> regular, STransactions |-> stake]

\* indexBlock with the stake transactions indexed before the regular ones.
indexBlockStakeFirst(block, isTreasuryEnabled) ==
    indexRegular(indexStake(<< >>, block.STransactions, 0, Len(block.Transactions),
                            isTreasuryEnabled),
                 block.Transactions, 0)

\* indexBlock: the address key -> transaction indexes map of a block.
indexBlock(block, isTreasuryEnabled) ==
    indexStake(indexRegular(<< >>, block.Transactions, 0),
               block.STransactions, 0, Len(block.Transactions), isTreasuryEnabled)

\* ------------------------------------------- connect and disconnect

\* block.TxLoc: the locations of the regular and of the stake transactions
\* in the serialized block, the stake transactions after the regular ones.
TxLocs(block) ==
    [i \in 1..Len(block.Transactions) |->
        [TxStart |-> 181 + 226 * (i - 1), TxLen |-> 226 + (i - 1)]]

StakeTxLocs(block) ==
    [j \in 1..Len(block.STransactions) |->
        [TxStart |-> 181 + 226 * (Len(block.Transactions) + j - 1), TxLen |-> 301 + j]]

\* connectEntry with the index in the block left at txIdx for a stake
\* transaction too.
connectEntryTxIdx(block, blockID, txIdx) ==
    LET stakeIdxsStart == Len(TxLocs(block))
        blockIndex == IF txIdx >= stakeIdxsStart THEN txIdx - stakeIdxsStart ELSE txIdx
        txLocations == IF txIdx >= stakeIdxsStart THEN StakeTxLocs(block) ELSE TxLocs(block)
    IN [blockID |-> blockID, txLoc |-> txLocations[blockIndex + 1],
        blockIndex |-> txIdx]

\* The record connectBlock stores for transaction txIdx of a block: the
\* location and the index in the regular tree, or those in the stake tree
\* when txIdx is at or past stakeIdxsStart, the number of regular locations.
connectEntry(block, blockID, txIdx) ==
    LET stakeIdxsStart == Len(TxLocs(block))
        blockIndex == IF txIdx >= stakeIdxsStart THEN txIdx - stakeIdxsStart ELSE txIdx
        txLocations == IF txIdx >= stakeIdxsStart THEN StakeTxLocs(block) ELSE TxLocs(block)
    IN [blockID |-> blockID, txLoc |-> txLocations[blockIndex + 1],
        blockIndex |-> blockIndex]

\* connectBlock's loop over the transaction indexes of one address key.
RECURSIVE connectTxIdxs(_, _, _, _, _, _)
connectTxIdxs(b, addrKey, block, blockID, txIdxs, i) ==
    IF i > Len(txIdxs)
    THEN b
    ELSE LET e == connectEntry(block, blockID, txIdxs[i])
         IN CHOOSE r \in {connectTxIdxs(put, addrKey, block, blockID, txIdxs, i + 1) :
                              put \in {dbPutAddrIndexEntry(b, addrKey, e.blockID, e.txLoc,
                                                           e.blockIndex)}} : TRUE

\* connectBlock's loop over the address keys.  The keys are distinct and
\* every put succeeds, so the order of the map iteration does not show.
RECURSIVE connectAddrs(_, _, _, _, _)
connectAddrs(b, keys, block, blockID, addrsToTxns) ==
    IF keys = {}
    THEN b
    ELSE LET addrKey == CHOOSE k \in keys : TRUE
         IN CHOOSE r \in {connectAddrs(put, keys \ {addrKey}, block, blockID, addrsToTxns) :
                              put \in {connectTxIdxs(b, addrKey, block, blockID,
                                                     addrsToTxns[addrKey], 1)}} : TRUE

\* connectBlock: the bucket and the index tip it leaves and the error it
\* returns.  blockIDErr and tipErr are the errors of dbFetchBlockIDByHash and
\* of dbPutIndexerTip.
connectBlock(b, curTip, block, hash, blockID, isTreasuryEnabled, blockIDErr, tipErr) ==
    IF blockIDErr # NoErr
    THEN [bucket |-> b, dbTip |-> curTip, err |-> blockIDErr]
    ELSE LET data == indexBlock(block, isTreasuryEnabled)
             written == connectAddrs(b, DOMAIN data, block, blockID, data)
         IN IF tipErr # NoErr
            THEN [bucket |-> written, dbTip |-> curTip, err |-> tipErr]
            ELSE [bucket |-> written, dbTip |-> hash, err |-> NoErr]

\* disconnectBlock's loop over the address keys, in the order the map
\* iteration takes them: it stops at the first remove that fails.
RECURSIVE disconnectAddrs(_, _, _, _)
disconnectAddrs(b, order, addrsToTxns, i) ==
    IF i > Len(order)
    THEN [bucket |-> b, err |-> NoErr]
    ELSE LET r == dbRemoveAddrIndexEntries(b, order[i], Len(addrsToTxns[order[i]]))
         IN IF r.err # NoErr
            THEN [bucket |-> r.bucket, err |-> r.err]
            ELSE disconnectAddrs(r.bucket, order, addrsToTxns, i + 1)

\* disconnectBlock: the bucket and the index tip it leaves and the error it
\* returns; the tip it writes is the previous block.
disconnectBlock(b, curTip, block, prevBlock, isTreasuryEnabled, order, tipErr) ==
    LET removed == disconnectAddrs(b, order, indexBlock(block, isTreasuryEnabled), 1)
    IN IF removed.err # NoErr
       THEN [bucket |-> removed.bucket, dbTip |-> curTip, err |-> removed.err]
       ELSE IF tipErr # NoErr
       THEN [bucket |-> removed.bucket, dbTip |-> curTip, err |-> tipErr]
       ELSE [bucket |-> removed.bucket, dbTip |-> prevBlock, err |-> NoErr]

\* ------------------------------------------------------ state machine

VARIABLES
    bucket,  \* the txbyaddridx bucket: level key -> level value
    log,     \* per address key, the records appended and not removed again
    fresh,   \* per address key, whether only appends were made to the
             \* address since it was last empty
    last,    \* the last call: its arguments, what it returned, the bucket
             \* it started from
    txnsByAddr,  \* idx.txnsByAddr: address key -> set of unconfirmed txns
    addrsByTx,   \* idx.addrsByTx: transaction hash -> set of address keys
    added,   \* per transaction hash added and not removed since, by calls
             \* made one at a time: the address keys its most recent add
             \* found, and those any add since its last removal found
    chain,   \* the blocks connected to the main chain, oldest first
    tip,     \* the block the spend consumer was told is its tip
    dbTip,   \* the index tip written to the database
    deps,    \* the blocks the spend consumer has a dependency on
    ntfn,    \* the last notification processed and what came of it
    rm,      \* the call of dbRemoveAddrIndexEntries in progress: the loop it
             \* is in and its local variables
    calls    \* the calls of the unconfirmed index in progress, per thread, and
             \* who holds unconfirmedLock

\* The unconfirmed (memory-only) index, and what was added to it.
idxVars == << txnsByAddr, addrsByTx, added >>

\* What block notifications read and write besides the bucket.
chainVars == << chain, tip, dbTip, deps, ntfn >>

\* The calls in progress.
stepVars == << rm, calls >>

vars ==
    << bucket, log, fresh, last, txnsByAddr, addrsByTx, added, chain, tip, dbTip, deps, ntfn,
       rm, calls >>

\* The levels of an address that have a key in the bucket.
LevelsOf(b, addrKey) ==
    {key[levelOffset + 1] : key \in {k \in DOMAIN b : \A i \in 1..addrKeySize : k[i] = addrKey[i]}}

\* The address keys in use: a pay-to-pubkey-hash key.
addrA == [i \in 1..addrKeySize |-> IF i = 1 THEN addrKeyTypePubKeyHash ELSE (37 * i) % 256]

AddrKeys == {addrA}

\* The n-th record a chain replay hands to the index for an address: the
\* block ID, the transaction's location in the block, its index in the block.
InputAt(n) ==
    LET blockIndex == (n - 1) % TxPerBlock
    IN [blockID |-> 300 + ((n - 1) \div TxPerBlock),
        txLoc |-> [TxStart |-> 181 + 226 * blockIndex, TxLen |-> 226 + blockIndex],
        blockIndex |-> blockIndex]

\* The numbers of entries to skip and to request that a query passes for an
\* address holding n entries.
SkipVals(n) == {U32Of(0), U32Of(1), U32Of(10), U32Of(n), MaxU32}

WantVals(n) == {U32Of(0), U32Of(1), U32Of(20), U32Of(n), MaxU32}

\* The counts removed between queries.
QueryRemoveCounts == {1, 9}

NoCall ==
    [op |-> "none", addrKey |-> addrA, count |-> 0, skip |-> U32Of(0),
     want |-> U32Of(0), reverse |-> FALSE, err |-> NoErr, entries |-> << >>,
     skipped |-> U32Of(0), before |-> EmptyBucket]

\* No notification processed yet.
NoNtfn ==
    [type |-> "none", block |-> 0, fails |-> "none", data |-> << >>,
     stepErr |-> NoErr, err |-> NoErr, faults |-> 0]

\* No call of dbRemoveAddrIndexEntries in progress.
NoRemove ==
    [pc |-> "idle", addrKey |-> << >>, count |-> 0, level |-> 0, numRemaining |-> 0,
     pendingUpdates |-> << >>, highestLoadedLevel |-> 0, curLevelData |-> << >>,
     curLevelMaxEntries |-> 0, lowestEmptyLevel |-> 0]

\* The largest number of threads that call the unconfirmed index.
NumThreads == 2

Threads == 1..NumThreads

\* A thread that is in no call of the unconfirmed index.
IdleThread ==
    [pc |-> "idle", op |-> "none", hash |-> 0, known |-> FALSE, addrKeys |-> << >>,
     addrKey |-> << >>, seen |-> {}]

\* No call of the unconfirmed index in progress, unconfirmedLock free.
NoCalls == [writer |-> 0, readers |-> {}, thread |-> [t \in Threads |-> IdleThread]]

\* The block before the first block the index is handed.
GenesisBlock == 0

\* NewAddrIndex: empty maps; the tips are at the block before the first one.
InitIdx ==
    /\ txnsByAddr = << >>
    /\ addrsByTx = << >>
    /\ added = << >>
    /\ rm = NoRemove
    /\ calls = NoCalls
    /\ chain = << >>
    /\ tip = GenesisBlock
    /\ dbTip = GenesisBlock
    /\ deps = {}
    /\ ntfn = NoNtfn

Init ==
    /\ bucket = EmptyBucket
    /\ log = [a \in AddrKeys |-> << >>]
    /\ fresh = [a \in AddrKeys |-> TRUE]
    /\ last = NoCall
    /\ InitIdx

\* A call of dbPutAddrIndexEntry with the next record of the address.
AppendEntry(addrKey) ==
    /\ Len(log[addrKey]) < MaxEntries
    /\ LET in == InputAt(Len(log[addrKey]) + 1)
       IN /\ bucket' = dbPutAddrIndexEntry(bucket, addrKey, in.blockID, in.txLoc,
                                           in.blockIndex)
          /\ log' = [log EXCEPT ![addrKey] = Append(@, in)]
    /\ last' = [NoCall EXCEPT !.op = "append", !.addrKey = addrKey, !.before = bucket]
    /\ UNCHANGED << fresh, idxVars, stepVars, chainVars >>

\* A call of dbRemoveAddrIndexEntries.
RemoveEntries(addrKey, count) ==
    \E r \in {dbRemoveAddrIndexEntries(bucket, addrKey, count)} :
       /\ bucket' = r.bucket
       /\ log' = IF r.err = NoErr /\ count >= 1
                 THEN [log EXCEPT ![addrKey] = SubSeq(@, 1, Len(@) - count)]
                 ELSE log
       /\ fresh' = [fresh EXCEPT ![addrKey] = (LevelsOf(r.bucket, addrKey) = {})]
       /\ last' = [NoCall EXCEPT !.op = "remove", !.addrKey = addrKey,
                                 !.count = count, !.err = r.err, !.before = bucket]
       /\ UNCHANGED << idxVars, stepVars, chainVars >>

\* A call of dbFetchAddrIndexEntries.
FetchEntries(addrKey, numToSkip, numRequested, reverse) ==
    \E r \in {dbFetchAddrIndexEntries(bucket, addrKey, numToSkip, numRequested, reverse)} :
       /\ last' = [NoCall EXCEPT !.op = "fetch", !.addrKey = addrKey,
                                 !.skip = numToSkip, !.want = numRequested,
                                 !.reverse = reverse, !.err = r.err,
                                 !.entries = r.entries, !.skipped = r.skipped,
                                 !.before = bucket]
       /\ UNCHANGED << bucket, log, fresh, idxVars, stepVars, chainVars >>

\* The writes of the index: appends, and removes of every count up to one
\* more than the address holds.
Next ==
    \E addrKey \in AddrKeys :
        \/ AppendEntry(addrKey)
        \/ \E count \in 0..(Len(log[addrKey]) + 1) : RemoveEntries(addrKey, count)

Spec == Init /\ [][Next]_vars

\* Writes and queries.  A query changes nothing in the bucket, so a query
\* made right after a query finds what that one found: queries are made from
\* the states a write (or the start) leaves.
NextQuery ==
    \E addrKey \in AddrKeys :
        \/ AppendEntry(addrKey)
        \/ \E count \in QueryRemoveCounts : RemoveEntries(addrKey, count)
        \/ /\ last.op # "fetch"
           /\ \E numToSkip \in SkipVals(Len(log[addrKey])),
                 numRequested \in WantVals(Len(log[addrKey])),
                 reverse \in BOOLEAN :
                   FetchEntries(addrKey, numToSkip, numRequested, reverse)

SpecQuery == Init /\ [][NextQuery]_vars

\* ------------------------------------------------- what is stored

\* The number of entries a level of an address holds.
NumEntries(b, addrKey, level) == Len(Get(b, keyForLevel(addrKey, level))) \div txEntrySize

HalfEntries(level) == maxEntriesForLevel(level) \div 2

\* The values of the given levels, the highest level first.
RECURSIVE LevelsHighestFirst(_, _, _)
LevelsHighestFirst(b, addrKey, levels) ==
    IF levels = {}
    THEN << >>
    ELSE LET top == CHOOSE l \in levels : \A m \in levels : m <= l
         IN Get(b, keyForLevel(addrKey, top))
                \o LevelsHighestFirst(b, addrKey, levels \ {top})

\* The bytes of an address's entries, oldest first.
LogicalBytes(b, addrKey) == LevelsHighestFirst(b, addrKey, LevelsOf(b, addrKey))

\* The total number of entries stored for an address.
Stored(b, addrKey) == Len(LogicalBytes(b, addrKey)) \div txEntrySize

\* The entries that a byte string of whole entries holds.
EntriesIn(bytes) ==
    [i \in 1..(Len(bytes) \div txEntrySize) |->
        deserializeAddrIndexEntry(Slice(bytes, (i - 1) * txEntrySize, i * txEntrySize)).entry]

\* The logical sequence of an address: its entries, oldest first.
Logical(b, addrKey) == EntriesIn(LogicalBytes(b, addrKey))

\* The entry that a query returns for an appended record.
EntryOf(in) ==
    [BlockRegion |-> [Hash |-> BlockHashByID(in.blockID), Offset |-> in.txLoc.TxStart,
                      Len |-> in.txLoc.TxLen],
     BlockIndex |-> in.blockIndex]

\* k appends to an address, of the records from the n-th on.
RECURSIVE AppendMany(_, _, _, _)
AppendMany(b, addrKey, n, k) ==
    IF k = 0
    THEN b
    ELSE CHOOSE r \in {AppendMany(d, addrKey, n + 1, k - 1) :
                          d \in {dbPutAddrIndexEntry(b, addrKey, InputAt(n).blockID,
                                                     InputAt(n).txLoc,
                                                     InputAt(n).blockIndex)}} : TRUE

\* The largest number of appends, made from a state, that one remove is
\* then to take back.
MaxUndo == 9

\* ------------------------------------------------------------ claims

\* ------------------------------------------------ block notifications

\* The largest number of blocks connected at a time.
MaxBlocks == 4

addrPKH1 == [type |-> "AddressPubKeyHashEcdsaSecp256k1V0", hash |-> 1]

addrPK1 == [type |-> "AddressPubKeyEcdsaSecp256k1V0", hash |-> 1]

addrSH1 == [type |-> "AddressScriptHashV0", hash |-> 1]

addrPKEd2 == [type |-> "AddressPubKeyEd25519V0", hash |-> 2]

addrOther == [type |-> "AddressOther", hash |-> 2]

\* The key of the script hash address.
addrS == addrToKey(addrSH1).key

payA == Script("pubkeyhash", << addrPKH1 >>, NoAddr)

payPubKeyA == Script("pubkey", << addrPK1 >>, NoAddr)

payS == Script("scripthash", << addrSH1 >>, NoAddr)

payOther == Script("pubkeyhash", << addrOther >>, NoAddr)

multiSig == Script("multisig", << addrPK1, addrPKEd2 >>, NoAddr)

commitA == Script("nulldata", << >>, << addrPKH1 >>)

nullData == Script("nulldata", << >>, NoAddr)

nonStandard == Script("nonstandard", << >>, NoAddr)

\* A coinbase: its one input has no previous output.
coinbase(outs) == Tx("regular", << TxIn(FALSE, nonStandard) >>, outs)

spendA == Tx("regular", << TxIn(TRUE, payA), TxIn(TRUE, payA) >>, << payPubKeyA, payS >>)

spendMulti == Tx("regular", << TxIn(FALSE, payA), TxIn(TRUE, multiSig) >>, << payOther, nullData >>)

spendS == Tx("regular", << TxIn(TRUE, payS) >>, << nonStandard >>)

ticket == Tx("sstx", << TxIn(TRUE, payA) >>, << payS, commitA >>)

vote == Tx("ssgen", << TxIn(TRUE, payS), TxIn(TRUE, payA) >>, << nullData, payA >>)

tspend == Tx("tspend", << TxIn(TRUE, payS) >>, << payA >>)

\* The blocks handed to the index, each with the treasury agenda flag of
\* its notification.
Blocks ==
    << [block |-> Block(<< coinbase(<< payA >>), spendA >>, << >>), treasury |-> FALSE],
       [block |-> Block(<< coinbase(<< payS >>), spendMulti, spendA, spendA, spendA >>,
                        << ticket, vote, ticket, vote >>),
        treasury |-> FALSE],
       [block |-> Block(<< coinbase(<< payOther >>) >>, << vote, tspend >>), treasury |-> TRUE],
       [block |-> Block(<< coinbase(<< payOther >>) >>, << vote, tspend >>), treasury |-> FALSE],
       [block |-> Block(<< coinbase(<< payA >>), spendS >>, << ticket, vote >>),
        treasury |-> TRUE] >>

\* The hash of the block of the given shape at the given height, and back.
BlockHash(height, shape) == height * 16 + shape

ShapeOf(hash) == Blocks[hash % 16]

\* dbFetchBlockIDByHash: block IDs increase with the height.
BlockIDOf(hash) == 300 + (hash \div 16)

\* The log with the records of a connected block added, per address key.
LogConnected(block, blockID, addrsToTxns) ==
    [k \in (DOMAIN log) \cup (DOMAIN addrsToTxns) |->
        (IF k \in DOMAIN log THEN log[k] ELSE << >>)
        \o (IF k \in DOMAIN addrsToTxns
            THEN [i \in 1..Len(addrsToTxns[k]) |->
                     connectEntry(block, blockID, addrsToTxns[k][i])]
            ELSE << >>)]

\* ProcessNotification of a ConnectNtfn for a block of the given shape on
\* top of the chain.  An error returned makes the caller abort the database
\* transaction, so that nothing connectBlock wrote is kept.
ConnectNtfn(shape, fails) ==
    /\ Len(chain) < MaxBlocks
    /\ LET hash == BlockHash(Len(chain) + 1, shape)
           blk == ShapeOf(hash)
       IN \E r \in {connectBlock(bucket, dbTip, blk.block, hash, BlockIDOf(hash),
                                 blk.treasury,
                                 IF fails = "blockid" THEN "errNoBlockID" ELSE NoErr,
                                 IF fails = "tip" THEN "errPutTip" ELSE NoErr)} :
            \E data \in {indexBlock(blk.block, blk.treasury)} :
              /\ ntfn' = [type |-> "connect", block |-> hash, fails |-> fails,
                          data |-> data, stepErr |-> r.err, err |-> r.err,
                          faults |-> ntfn.faults + (IF fails = "none" THEN 0 ELSE 1)]
              /\ IF r.err # NoErr
                 THEN UNCHANGED << bucket, log, fresh, chain, tip, dbTip, deps >>
                 ELSE /\ bucket' = r.bucket
                      /\ dbTip' = r.dbTip
                      /\ tip' = hash
                      /\ chain' = Append(chain, hash)
                      /\ deps' = deps \cup {hash}
                      /\ log' = LogConnected(blk.block, BlockIDOf(hash), data)
                      /\ fresh' = [k \in DOMAIN log' |->
                                      IF k \in DOMAIN fresh THEN fresh[k] ELSE TRUE]
    /\ UNCHANGED << last, idxVars, stepVars >>

\* disconnectErr with the error of disconnectBlock returned.
disconnectErrReturned(stepErr) == stepErr

\* What ProcessNotification returns for a DisconnectNtfn whose
\* disconnectBlock returned stepErr: the error is logged, nil is returned.
disconnectErr(stepErr) == NoErr

\* The orders in which a map iteration may take the keys.
Orders(keys) ==
    {order \in [1..Cardinality(keys) -> keys] :
        \A i, j \in 1..Cardinality(keys) : i # j => order[i] # order[j]}

\* ProcessNotification of a DisconnectNtfn for the block at the top of the
\* chain.  The errors of disconnectBlock and of the dependency removal are
\* logged only.
DisconnectNtfn(fails) ==
    /\ chain # << >>
    /\ LET hash == chain[Len(chain)]
           parent == IF Len(chain) = 1 THEN GenesisBlock ELSE chain[Len(chain) - 1]
           blk == ShapeOf(hash)
       IN \E data \in {indexBlock(blk.block, blk.treasury)} :
          \E order \in Orders(DOMAIN data) :
          \E r \in {disconnectBlock(bucket, dbTip, blk.block, parent, blk.treasury, order,
                                    IF fails = "tip" THEN "errPutTip" ELSE NoErr)} :
              /\ ntfn' = [type |-> "disconnect", block |-> hash, fails |-> fails,
                          data |-> data, stepErr |-> r.err, err |-> disconnectErr(r.err),
                          faults |-> ntfn.faults + (IF fails = "none" THEN 0 ELSE 1)]
              /\ bucket' = r.bucket
              /\ dbTip' = r.dbTip
              /\ deps' = IF fails = "dep" THEN deps ELSE deps \ {hash}
              /\ tip' = parent
              /\ chain' = SubSeq(chain, 1, Len(chain) - 1)
              /\ log' = [k \in DOMAIN log |->
                            SubSeq(log[k], 1, Min(Len(log[k]), Stored(r.bucket, k)))]
              /\ fresh' = [k \in DOMAIN fresh |->
                              IF k \in DOMAIN data
                              THEN LevelsOf(r.bucket, k) = {}
                              ELSE fresh[k]]
    /\ UNCHANGED << last, idxVars, stepVars >>

\* ProcessNotification of a notification of any other type.
OtherNtfn ==
    /\ ntfn.type # "other"
    /\ ntfn' = [NoNtfn EXCEPT !.type = "other", !.err = "unknown notification type",
                              !.faults = ntfn.faults]
    /\ UNCHANGED << bucket, log, fresh, last, idxVars, stepVars, chain, tip, dbTip, deps >>

\* Blocks connected and disconnected with no step failing.
NextChain ==
    \/ \E shape \in 1..Len(Blocks) : ConnectNtfn(shape, "none")
    \/ DisconnectNtfn("none")

SpecChain == Init /\ [][NextChain]_vars

\* The largest number of blocks connected at a time when steps may fail.
MaxNtfnBlocks == 2

\* The largest number of notifications with a step that fails.
MaxFaults == 1

\* The blocks handed over when steps may fail.
NtfnShapes == {1, 3}

\* Notifications of every type, with steps that fail: the block ID lookup
\* and the write of the index tip of a connect, the write of the index tip
\* and the removal of the dependency of a disconnect.
NextNtfn ==
    \/ /\ Len(chain) < MaxNtfnBlocks
       /\ \E shape \in NtfnShapes, fails \in {"none", "blockid", "tip"} :
             /\ fails # "none" => ntfn.faults < MaxFaults
             /\ ConnectNtfn(shape, fails)
    \/ \E fails \in {"none", "tip", "dep"} :
          /\ fails # "none" => ntfn.faults < MaxFaults
          /\ DisconnectNtfn(fails)
    \/ OtherNtfn

SpecNtfn == Init /\ [][NextNtfn]_vars

\* ------------------------------------------------ unconfirmed index

\* The two maps of the unconfirmed index as one value.
Mirror(byAddr, byTx) == [txnsByAddr |-> byAddr, addrsByTx |-> byTx]

\* The mapping from the address key to the transaction.
insertTxnsByAddr(byAddr, addrKey, tx) ==
    Put(byAddr, addrKey, Put(Get(byAddr, addrKey), tx.hash, tx))

\* The mapping from the transaction to the address key.
insertAddrsByTx(byTx, addrKey, tx) ==
    Put(byTx, tx.hash,
        (IF tx.hash \in DOMAIN byTx THEN byTx[tx.hash] ELSE {}) \cup {addrKey})

\* The section of indexUnconfirmedAddresses that holds unconfirmedLock: the
\* mappings from the address key to the transaction and back.
indexUnconfirmedAddress(m, addrKey, tx) ==
    Mirror(insertTxnsByAddr(m.txnsByAddr, addrKey, tx),
           insertAddrsByTx(m.addrsByTx, addrKey, tx))

\* indexUnconfirmedAddresses' loop over addrs from the i-th address on.
RECURSIVE indexUnconfirmedAddrs(_, _, _, _)
indexUnconfirmedAddrs(m, addrs, i, tx) ==
    IF i > Len(addrs)
    THEN m
    ELSE LET k == addrToKey(addrs[i])
         IN IF k.err # NoErr
            THEN indexUnconfirmedAddrs(m, addrs, i + 1, tx)
            ELSE CHOOSE r \in {indexUnconfirmedAddrs(d, addrs, i + 1, tx) :
                                d \in {indexUnconfirmedAddress(m, k.key, tx)}} : TRUE

indexUnconfirmedAddresses(m, pkScript, tx, isSStx) ==
    IF isSStx /\ pkScript.class = "nulldata"
    THEN IF pkScript.commit = NoAddr
         THEN m
         ELSE indexUnconfirmedAddrs(m, pkScript.addrs \o pkScript.commit, 1, tx)
    ELSE indexUnconfirmedAddrs(m, pkScript.addrs, 1, tx)

\* AddUnconfirmedTx's loop over the inputs from the i-th (from 1) on.
RECURSIVE unconfirmedTxIns(_, _, _, _, _)
unconfirmedTxIns(m, ins, i, tx, isSSGen) ==
    IF i > Len(ins)
    THEN m
    ELSE IF (i = 1 /\ isSSGen) \/ ~ins[i].ok
    THEN unconfirmedTxIns(m, ins, i + 1, tx, isSSGen)
    ELSE CHOOSE r \in {unconfirmedTxIns(d, ins, i + 1, tx, isSSGen) :
                        d \in {indexUnconfirmedAddresses(m, ins[i].pkScript, tx, FALSE)}} : TRUE

\* AddUnconfirmedTx's loop over the outputs from the i-th (from 1) on.
RECURSIVE unconfirmedTxOuts(_, _, _, _, _)
unconfirmedTxOuts(m, outs, i, tx, isSStx) ==
    IF i > Len(outs)
    THEN m
    ELSE CHOOSE r \in {unconfirmedTxOuts(d, outs, i + 1, tx, isSStx) :
                        d \in {indexUnconfirmedAddresses(m, outs[i], tx, isSStx)}} : TRUE

\* AddUnconfirmedTx that indexes the addresses of the inputs only.
AddUnconfirmedTxInputsOnly(m, tx) ==
    unconfirmedTxIns(m, tx.msgTx.ins, 1, tx, tx.msgTx.kind = "ssgen")

\* AddUnconfirmedTx with no other call running: tx.msgTx.ins holds what
\* prevScripts.PrevScript returns for each input.
AddUnconfirmedTx(m, tx) ==
    unconfirmedTxOuts(unconfirmedTxIns(m, tx.msgTx.ins, 1, tx, tx.msgTx.kind = "ssgen"),
                      tx.msgTx.outs, 1, tx, tx.msgTx.kind = "sstx")

\* RemoveUnconfirmedTx that leaves an address with no transactions in place.
RemoveUnconfirmedTxKeepEmpty(m, hash) ==
    LET addrKeys == IF hash \in DOMAIN m.addrsByTx THEN m.addrsByTx[hash] ELSE {}
    IN Mirror([k \in DOMAIN m.txnsByAddr |->
                  IF k \in addrKeys THEN Delete(m.txnsByAddr[k], hash) ELSE m.txnsByAddr[k]],
              Delete(m.addrsByTx, hash))

\* RemoveUnconfirmedTx.  The address keys of the transaction are distinct,
\* so the order in which the loop takes them makes no difference.
RemoveUnconfirmedTx(m, hash) ==
    LET addrKeys == IF hash \in DOMAIN m.addrsByTx THEN m.addrsByTx[hash] ELSE {}
        emptied == {k \in addrKeys \cap DOMAIN m.txnsByAddr :
                       DOMAIN Delete(m.txnsByAddr[k], hash) = {}}
    IN Mirror([k \in (DOMAIN m.txnsByAddr) \ emptied |->
                  IF k \in addrKeys THEN Delete(m.txnsByAddr[k], hash) ELSE m.txnsByAddr[k]],
              Delete(m.addrsByTx, hash))

\* UnconfirmedTxnsForAddress when the map iteration takes the transactions
\* of the address in the given order; order is not looked at when there are
\* none.
UnconfirmedTxnsForAddress(m, addr, order) ==
    LET k == addrToKey(addr)
    IN IF k.err # NoErr
       THEN << >>
       ELSE IF k.key \in DOMAIN m.txnsByAddr
       THEN [i \in 1..Len(order) |-> m.txnsByAddr[k.key][order[i]]]
       ELSE << >>

\* The orders a query for the address may take its transactions in.
TxnOrders(m, addr) ==
    LET k == addrToKey(addr)
    IN IF k.err = NoErr /\ k.key \in DOMAIN m.txnsByAddr
       THEN Orders(DOMAIN m.txnsByAddr[k.key])
       ELSE {<< >>}

\* The transactions handed to the unconfirmed index, by hash.
MempoolTxns == << spendS, spendMulti, ticket >>

\* The transaction of the hash with the inputs as the previous scripts
\* passed along know them: all the transaction spends, or none.
MempoolTx(hash, known) ==
    LET msgTx == MempoolTxns[hash]
    IN [hash |-> hash,
        msgTx |-> Tx(msgTx.kind,
                     [i \in 1..Len(msgTx.ins) |->
                         TxIn(msgTx.ins[i].ok /\ known, msgTx.ins[i].pkScript)],
                     msgTx.outs)]

\* The address keys of a public key script that the index has a key for.
ScriptKeys(pkScript, isSStx) ==
    LET addrs == IF isSStx /\ pkScript.class = "nulldata"
                 THEN IF pkScript.commit = NoAddr
                      THEN << >>
                      ELSE pkScript.addrs \o pkScript.commit
                 ELSE pkScript.addrs
    IN {addrToKey(addrs[i]).key : i \in {j \in 1..Len(addrs) : addrToKey(addrs[j]).err = NoErr}}

\* The address keys an add of the transaction finds.
Discovered(tx) ==
    UNION ({ScriptKeys(tx.msgTx.ins[i].pkScript, FALSE) :
               i \in {j \in 1..Len(tx.msgTx.ins) :
                         /\ tx.msgTx.ins[j].ok
                         /\ ~(j = 1 /\ tx.msgTx.kind = "ssgen")}}
           \cup {ScriptKeys(tx.msgTx.outs[i], tx.msgTx.kind = "sstx") :
                    i \in 1..Len(tx.msgTx.outs)})

\* A call of AddUnconfirmedTx.
AddUnconfirmed(hash, known) ==
    \E tx \in {MempoolTx(hash, known)} :
    \E m \in {AddUnconfirmedTx(Mirror(txnsByAddr, addrsByTx), tx)} :
       /\ txnsByAddr' = m.txnsByAddr
       /\ addrsByTx' = m.addrsByTx
       /\ added' = Put(added, hash,
                       [recent |-> Discovered(tx),
                        since |-> Discovered(tx) \cup
                                  (IF hash \in DOMAIN added THEN added[hash].since ELSE {})])
       /\ last' = [NoCall EXCEPT !.op = "addUnconfirmed", !.count = hash,
                                 !.before = Mirror(txnsByAddr, addrsByTx)]
       /\ UNCHANGED << bucket, log, fresh, stepVars, chainVars >>

\* A call of RemoveUnconfirmedTx.
RemoveUnconfirmed(hash) ==
    \E m \in {RemoveUnconfirmedTx(Mirror(txnsByAddr, addrsByTx), hash)} :
       /\ txnsByAddr' = m.txnsByAddr
       /\ addrsByTx' = m.addrsByTx
       /\ added' = Delete(added, hash)
       /\ last' = [NoCall EXCEPT !.op = "removeUnconfirmed", !.count = hash,
                                 !.before = Mirror(txnsByAddr, addrsByTx)]
       /\ UNCHANGED << bucket, log, fresh, stepVars, chainVars >>

\* A call of UnconfirmedTxnsForAddress.
UnconfirmedFor(addr) ==
    \E m \in {Mirror(txnsByAddr, addrsByTx)} :
    \E order \in TxnOrders(m, addr) :
       /\ last' = [NoCall EXCEPT !.op = "unconfirmedFor",
                                 !.addrKey = addrToKey(addr).key,
                                 !.err = addrToKey(addr).err,
                                 !.entries = UnconfirmedTxnsForAddress(m, addr, order),
                                 !.before = m]
       /\ UNCHANGED << bucket, log, fresh, idxVars, stepVars, chainVars >>

\* The calls of the unconfirmed index, one at a time.
NextMirror ==
    \/ \E hash \in DOMAIN MempoolTxns, known \in BOOLEAN : AddUnconfirmed(hash, known)
    \/ \E hash \in DOMAIN MempoolTxns : RemoveUnconfirmed(hash)
    \/ \E addr \in Addresses : UnconfirmedFor(addr)

SpecMirror == Init /\ [][NextMirror]_vars

\* C1: a remove of 1 <= count <= T entries from an address holding T entries
\* succeeds, and a forward fetch then returns exactly the first T-count
\* entries of the previous logical sequence, even when it asks for T.
C1_RemoveTakesNewest ==
    \A a \in AddrKeys :
        (last.op = "remove" /\ last.addrKey = a /\ last.count >= 1
            /\ last.count <= Stored(last.before, a))
        => \E prev \in {Logical(last.before, a)} :
             LET kept == Len(prev) - last.count
                 got == dbFetchAddrIndexEntries(bucket, a, U32Of(0), U32Of(kept), FALSE)
                 all == dbFetchAddrIndexEntries(bucket, a, U32Of(0), U32Of(Len(prev)), FALSE)
             IN /\ last.err = NoErr
                /\ got = [entries |-> SubSeq(prev, 1, kept), skipped |-> U32Of(0),
                          err |-> NoErr]
                /\ all.entries = SubSeq(prev, 1, kept)

\* A remove of 5 entries from levels of 1, 16 and 32 entries has returned.
C1_Witness ==
    /\ last.op = "remove" /\ last.err = NoErr /\ last.count = 5
    /\ NumEntries(last.before, addrA, 0) = 1
    /\ NumEntries(last.before, addrA, 1) = 16
    /\ NumEntries(last.before, addrA, 2) = 32
    /\ Stored(bucket, addrA) = 44

\* C2: after N appends to an empty address, a forward fetch of N entries from
\* the start returns the N appended records in the order of their appends,
\* and a reverse fetch returns them in the reverse of that order.
C2_RoundTrip ==
    \A a \in AddrKeys :
        (last.op = "fetch" /\ last.addrKey = a /\ fresh[a]
            /\ last.skip = U32Of(0) /\ last.want = U32Of(Len(log[a])))
        => LET N == Len(log[a])
           IN /\ last.err = NoErr
              /\ last.skipped = U32Of(0)
              /\ last.entries =
                    IF last.reverse
                    THEN [i \in 1..N |-> EntryOf(log[a][N + 1 - i])]
                    ELSE [i \in 1..N |-> EntryOf(log[a][i])]

\* A reverse fetch of all 57 entries appended to an empty address, which by
\* then has a level 3, has returned.
C2_Witness ==
    /\ last.op = "fetch" /\ last.reverse /\ fresh[addrA]
    /\ Len(log[addrA]) = 57 /\ last.want = U32Of(57) /\ Len(last.entries) = 57
    /\ NumEntries(bucket, addrA, 3) = 32

\* C3: from every state, k >= 1 appends to an address followed by a remove of
\* k entries from it leave the bucket as it was: the same level keys with
\* the same bytes.
C3_RemoveUndoesAppends ==
    \A a \in AddrKeys : \A k \in 1..MaxUndo :
        \E grown \in {AppendMany(bucket, a, Len(log[a]) + 1, k)} :
            dbRemoveAddrIndexEntries(grown, a, k) = [bucket |-> bucket, err |-> NoErr]

\* A remove of 9 entries has taken back 9 appends that had opened level 2,
\* and left the 16 entries the address held before them.
C3_Witness ==
    /\ last.op = "remove" /\ last.err = NoErr /\ last.count = 9
    /\ Len(log[addrA]) = 16
    /\ last.before = AppendMany(bucket, addrA, 17, 9)
    /\ NumEntries(last.before, addrA, 2) = 16
    /\ LevelsOf(bucket, addrA) = {0, 1}

\* C4: every level L >= 1 of an address holds no entry, half its maximum or
\* its maximum of entries.
C4_HalfOrFull ==
    \A a \in AddrKeys : \A L \in LevelsOf(bucket, a) \cup (1..4) :
        L >= 1 =>
            Len(Get(bucket, keyForLevel(a, L)))
                \in {0, HalfEntries(L) * txEntrySize, maxEntriesForLevel(L) * txEntrySize}

\* A remove has left level 1 half full under a full level 2.
C4_Witness ==
    /\ last.op = "remove" /\ last.err = NoErr /\ last.count >= 1
    /\ NumEntries(bucket, addrA, 1) = 8
    /\ NumEntries(bucket, addrA, 2) = 32

\* C5 as stated: under a non-empty level L >= 1, every level K < L, level 0
\* included, holds exactly its maximum.
C5_AllLowerLevelsFull ==
    \A a \in AddrKeys : \A L \in LevelsOf(bucket, a) :
        (L >= 1 /\ NumEntries(bucket, a, L) > 0)
        => \A K \in 0..(L - 1) : NumEntries(bucket, a, K) = maxEntriesForLevel(K)

\* C5, amended: under a non-empty level L >= 1, level 0 holds between 1 and
\* its maximum of 8 entries, and every level K with 1 <= K < L holds half its
\* maximum or its maximum.
C5_LowerLevelsPopulated ==
    \A a \in AddrKeys : \A L \in LevelsOf(bucket, a) :
        (L >= 1 /\ NumEntries(bucket, a, L) > 0)
        => /\ NumEntries(bucket, a, 0) \in 1..level0MaxEntries
           /\ \A K \in 1..(L - 1) :
                NumEntries(bucket, a, K) \in {HalfEntries(K), maxEntriesForLevel(K)}

\* The append that opens level 2 has left 1 entry in level 0 and a half
\* full level 1.
C5_Witness ==
    /\ last.op = "append"
    /\ NumEntries(bucket, addrA, 0) = 1
    /\ NumEntries(bucket, addrA, 1) = 8
    /\ NumEntries(bucket, addrA, 2) = 16

\* C6 as stated: under a non-empty level L >= 2, every level K with
\* 1 <= K < L holds exactly its maximum.
C6_MiddleLevelsFull ==
    \A a \in AddrKeys : \A L \in LevelsOf(bucket, a) :
        (L >= 2 /\ NumEntries(bucket, a, L) > 0)
        => \A K \in 1..(L - 1) : NumEntries(bucket, a, K) = maxEntriesForLevel(K)

\* C6, amended: under a non-empty level L >= 2, every level K with
\* 1 <= K < L holds at least half its maximum: exactly half, or the maximum.
C6_MiddleLevelsHalfOrFull ==
    \A a \in AddrKeys : \A L \in LevelsOf(bucket, a) :
        (L >= 2 /\ NumEntries(bucket, a, L) > 0)
        => \A K \in 1..(L - 1) :
            /\ NumEntries(bucket, a, K) >= HalfEntries(K)
            /\ Len(Get(bucket, keyForLevel(a, K)))
                 \in {HalfEntries(K) * txEntrySize, maxEntriesForLevel(K) * txEntrySize}

\* The append that opens level 3 has left levels 1 and 2 half full under it.
C6_Witness ==
    /\ last.op = "append" /\ Stored(bucket, addrA) = 57
    /\ NumEntries(bucket, addrA, 1) = 8
    /\ NumEntries(bucket, addrA, 2) = 16
    /\ NumEntries(bucket, addrA, 3) = 32

\* C7: level 0 of an address holds at most 8 entries, also after a remove has
\* assigned to it what its squash of the higher levels left over.
C7_Level0AtMostMax ==
    \A a \in AddrKeys :
        Len(Get(bucket, keyForLevel(a, 0))) <= level0MaxEntries * txEntrySize

\* A remove of 9 entries from levels of 1 and 16 entries has emptied level 0,
\* cut level 1 down to 8 entries and squashed those 8 into level 0.
C7_Witness ==
    /\ last.op = "remove" /\ last.err = NoErr /\ last.count = 9
    /\ NumEntries(last.before, addrA, 0) = 1
    /\ NumEntries(last.before, addrA, 1) = 16
    /\ LevelsOf(last.before, addrA) = {0, 1}
    /\ NumEntries(bucket, addrA, 0) = 8
    /\ LevelsOf(bucket, addrA) = {0}

\* C8: a remove of more entries than the address holds returns the assertion
\* error and leaves the bucket as it was.
C8_RemoveTooMany ==
    \A a \in AddrKeys :
        (last.op = "remove" /\ last.addrKey = a /\ last.count > Stored(last.before, a))
        => /\ last.err = ErrAssert
           /\ bucket = last.before

\* A remove of 50 entries from an address holding 49 in three levels has
\* returned.
C8_Witness ==
    /\ last.op = "remove" /\ last.count = 50
    /\ Stored(last.before, addrA) = 49
    /\ LevelsOf(last.before, addrA) = {0, 1, 2}
    /\ last.err = ErrAssert

\* The number of entries a fetch is to return: the number requested, at most
\* the N - skip entries after the skipped ones.
Expected(N, skip, want) ==
    IF Lt32(want, U32Of(N - IntOf(skip))) THEN IntOf(want) ELSE N - IntOf(skip)

\* C9: a forward fetch that skips fewer entries than the N stored returns the
\* min(want, N - skip) entries at positions skip, skip+1, ... of the logical
\* sequence, in that order, and reports skip as skipped.
C9_ForwardFetch ==
    \A a \in AddrKeys :
        (last.op = "fetch" /\ last.addrKey = a /\ ~last.reverse
            /\ Lt32(last.skip, U32Of(Stored(bucket, a))))
        => \E all \in {Logical(bucket, a)} :
             /\ last.err = NoErr
             /\ last.skipped = last.skip
             /\ last.entries =
                   [i \in 1..Expected(Len(all), last.skip, last.want) |->
                       all[IntOf(last.skip) + i]]

\* A forward fetch that skips 10 entries and requests 20 of the 57 stored has
\* returned 20 entries.
C9_Witness ==
    /\ last.op = "fetch" /\ ~last.reverse /\ last.err = NoErr
    /\ last.skip = U32Of(10) /\ last.want = U32Of(20)
    /\ Stored(bucket, addrA) = 57
    /\ Len(last.entries) = 20

\* C10: a reverse fetch that skips fewer entries than the N stored returns
\* min(want, N - skip) entries, the i-th (from 0) being the entry at position
\* N-1-skip-i of the logical sequence, and reports skip as skipped, for every
\* uint32 skip and want.
C10_ReverseFetch ==
    \A a \in AddrKeys :
        (last.op = "fetch" /\ last.addrKey = a /\ last.reverse
            /\ Lt32(last.skip, U32Of(Stored(bucket, a))))
        => \E all \in {Logical(bucket, a)} :
             /\ last.err = NoErr
             /\ last.skipped = last.skip
             /\ last.entries =
                   [i \in 1..Expected(Len(all), last.skip, last.want) |->
                       all[Len(all) - IntOf(last.skip) - (i - 1)]]

\* C11: a fetch, forward or reverse, that is to skip at least the N entries
\* stored for the address returns no entries and reports N as skipped, for
\* every uint32 skip and want.
C11_SkipAll ==
    \A a \in AddrKeys :
        (last.op = "fetch" /\ last.addrKey = a
            /\ Ge32(last.skip, U32Of(Stored(bucket, a))))
        => /\ last.err = NoErr
           /\ last.entries = << >>
           /\ last.skipped = U32Of(Stored(bucket, a))

\* ------------------------------------- a level 0 value cut short

\* The largest number of entries appended before level 0 is cut short.
MaxShortEntries == 17

\* The numbers of bytes that the level 0 value has lost at its end.
CutVals == {1, 8, 15}

\* The bucket after n appends to an address whose level 0 value has then lost
\* its last cut bytes: a stored value whose length is no multiple of 16.
ShortLevel0(addrKey, n, cut) ==
    \E b \in {AppendMany(EmptyBucket, addrKey, 1, n)} :
        \E level0Data \in {Get(b, keyForLevel(addrKey, 0))} :
            bucket = Put(b, keyForLevel(addrKey, 0),
                         Slice(level0Data, 0, Len(level0Data) - cut))

\* The bucket handed to dbFetchAddrIndexEntries holds a level 0 value that
\* was cut short.
InitShort ==
    /\ \E n \in 1..MaxShortEntries, cut \in CutVals : ShortLevel0(addrA, n, cut)
    /\ log = [a \in AddrKeys |-> << >>]
    /\ fresh = [a \in AddrKeys |-> FALSE]
    /\ last = NoCall
    /\ InitIdx

\* Queries of the bucket as it was handed over.
NextShort ==
    \E addrKey \in AddrKeys :
        /\ last.op # "fetch"
        /\ \E numToSkip \in SkipVals(Stored(bucket, addrKey)),
              numRequested \in WantVals(Stored(bucket, addrKey)),
              reverse \in BOOLEAN :
                FetchEntries(addrKey, numToSkip, numRequested, reverse)

SpecShort == InitShort /\ [][NextShort]_vars

\* C12: a fetch on an address whose level 0 value has a length that is not a
\* multiple of 16 returns a corruption error.
C12_ShortLevel0IsCorruption ==
    \A a \in AddrKeys :
        (last.op = "fetch" /\ last.addrKey = a
            /\ Len(Get(bucket, keyForLevel(a, 0))) % txEntrySize # 0)
        => last.err = ErrCorruption

\* The block ID an entry was stored with.
IDOf(entry) == entry.BlockRegion.Hash[2]

\* C13 as stated: after blocks with increasing block IDs were connected, the
\* logical sequence of every address is non-decreasing in the pair
\* (blockID, indexInBlock), compared lexicographically.
C13_OrderedByIndexInBlock ==
    \A a \in DOMAIN log :
        \E es \in {Logical(bucket, a)} :
            \A i \in 1..(Len(es) - 1) :
                \/ IDOf(es[i]) < IDOf(es[i + 1])
                \/ /\ IDOf(es[i]) = IDOf(es[i + 1])
                   /\ es[i].BlockIndex <= es[i + 1].BlockIndex

\* C13, amended: the logical sequence of every address is non-decreasing in
\* the block ID, and the entries of one block are in the order of their
\* transactions in the block, the regular transactions before the stake
\* transactions: their offsets in the block ascend, and indexInBlock ascends
\* except at the one place where the stake tree's entries begin.
C13_OrderedByPositionInBlock ==
    \A a \in DOMAIN log :
        \E es \in {Logical(bucket, a)} :
            /\ \A i \in 1..(Len(es) - 1) :
                \/ IDOf(es[i]) < IDOf(es[i + 1])
                \/ /\ IDOf(es[i]) = IDOf(es[i + 1])
                   /\ es[i].BlockRegion.Offset < es[i + 1].BlockRegion.Offset
            /\ \A i, j \in 1..(Len(es) - 1) :
                (i < j /\ IDOf(es[i]) = IDOf(es[j + 1])
                    /\ es[i].BlockIndex >= es[i + 1].BlockIndex)
                => es[j].BlockIndex < es[j + 1].BlockIndex

\* A block with the address in its regular and in its stake transactions
\* has been connected, and the address has entries in three levels.
C13_Witness ==
    /\ ntfn.type = "connect" /\ ntfn.err = NoErr
    /\ addrA \in DOMAIN ntfn.data
    /\ ntfn.data[addrA] = << 1, 2, 3, 4, 5, 6, 7, 8 >>
    /\ LevelsOf(bucket, addrA) = {0, 1, 2}
    /\ \E i \in 1..(Len(log[addrA]) - 1) :
          log[addrA][i].blockIndex > log[addrA][i + 1].blockIndex

\* C14: the list of transaction indexes that indexBlock builds for an
\* address key of a block is strictly ascending, so that it holds no
\* transaction twice, and connectBlock appends the entries of the address in
\* the order of that list.
C14_AscendingTxIdxs ==
    (ntfn.type = "connect" /\ ntfn.err = NoErr)
    => \A k \in DOMAIN ntfn.data :
         \E txIdxs \in {ntfn.data[k]} : \E es \in {Logical(bucket, k)} :
            /\ \A i \in 1..(Len(txIdxs) - 1) : txIdxs[i] < txIdxs[i + 1]
            /\ Len(es) >= Len(txIdxs)
            /\ \A i \in 1..Len(txIdxs) :
                 es[Len(es) - Len(txIdxs) + i] =
                    EntryOf(connectEntry(ShapeOf(ntfn.block).block, BlockIDOf(ntfn.block),
                                         txIdxs[i]))

\* The first block connected has transactions that reference an address
\* through two inputs and an output, and through an input and a commitment.
C14_Witness ==
    /\ ntfn.type = "connect" /\ ntfn.err = NoErr /\ Len(chain) = 1
    /\ \E txns \in {ShapeOf(ntfn.block).block.Transactions} :
          spendA \in {txns[i] : i \in 1..Len(txns)}
    /\ \E txns \in {ShapeOf(ntfn.block).block.STransactions} :
          ticket \in {txns[i] : i \in 1..Len(txns)}
    /\ addrA \in DOMAIN ntfn.data
    /\ ntfn.data[addrA] = << 1, 2, 3, 4, 5, 6, 7, 8 >>
    /\ Stored(bucket, addrA) = 8

\* C15: a Disconnect notification whose disconnectBlock fails still has the
\* spend consumer dependency of the block removed and the consumer tip moved
\* to the parent, and returns no error; a Connect notification whose
\* connectBlock fails returns the error and leaves the consumer tip alone.
C15_BestEffortDisconnect ==
    [][/\ (ntfn'.type = "disconnect" /\ ntfn'.stepErr # NoErr)
          => /\ ntfn'.err = NoErr
             /\ ntfn'.block = chain[Len(chain)]
             /\ ntfn'.block \notin deps'
             /\ tip' = IF Len(chain) = 1 THEN GenesisBlock ELSE chain[Len(chain) - 1]
       /\ (ntfn'.type = "connect" /\ ntfn'.stepErr # NoErr)
          => /\ ntfn'.err = ntfn'.stepErr
             /\ tip' = tip]_vars

\* The disconnect of the second block failed to write the index tip: the
\* consumer tip is at the first block, the dependency is gone, the index
\* tip is still the second block.
C15_Witness ==
    /\ ntfn.type = "disconnect" /\ ntfn.stepErr # NoErr /\ ntfn.err = NoErr
    /\ Len(chain) = 1 /\ tip = chain[1]
    /\ deps = {chain[1]}
    /\ dbTip = ntfn.block

\* Whether the transaction hash is in the inner map of the address key.
InTxnsByAddr(m, addrKey, hash) ==
    addrKey \in DOMAIN m.txnsByAddr /\ hash \in DOMAIN m.txnsByAddr[addrKey]

\* C16: after RemoveUnconfirmedTx(h) returns, h is in no inner map of
\* txnsByAddr and addrsByTx has no entry for h, every address whose only
\* transaction was h has no outer entry left, and the mappings of every other
\* transaction are as they were; removing a hash that is not in the index
\* changes nothing.
C16_RemoveUnconfirmedFrame ==
    last.op = "removeUnconfirmed"
    => \E h \in {last.count} : \E m \in {Mirror(txnsByAddr, addrsByTx)} :
          /\ \A k \in DOMAIN txnsByAddr : h \notin DOMAIN txnsByAddr[k]
          /\ h \notin DOMAIN addrsByTx
          /\ \A k \in DOMAIN last.before.txnsByAddr :
                DOMAIN last.before.txnsByAddr[k] = {h} => k \notin DOMAIN txnsByAddr
          /\ \A h2 \in (DOMAIN MempoolTxns) \ {h} :
                /\ (h2 \in DOMAIN addrsByTx) = (h2 \in DOMAIN last.before.addrsByTx)
                /\ h2 \in DOMAIN addrsByTx => addrsByTx[h2] = last.before.addrsByTx[h2]
                /\ \A k \in (DOMAIN txnsByAddr) \cup (DOMAIN last.before.txnsByAddr) :
                      /\ InTxnsByAddr(m, k, h2) = InTxnsByAddr(last.before, k, h2)
                      /\ InTxnsByAddr(m, k, h2)
                         => txnsByAddr[k][h2] = last.before.txnsByAddr[k][h2]
          /\ (/\ h \notin DOMAIN last.before.addrsByTx
              /\ \A k \in DOMAIN last.before.txnsByAddr : ~InTxnsByAddr(last.before, k, h))
             => m = last.before

\* The ticket has been removed from an index in which it was the only
\* transaction of one address and one of two transactions of another.
C16_Witness ==
    /\ last.op = "removeUnconfirmed" /\ last.count = 3
    /\ InTxnsByAddr(last.before, addrA, 3)
    /\ DOMAIN last.before.txnsByAddr[addrA] = {3}
    /\ DOMAIN last.before.txnsByAddr[addrS] = {1, 3}
    /\ DOMAIN txnsByAddr = {addrS}
    /\ addrsByTx = Put(<< >>, 1, {addrS})

\* The hashes of the transactions a query for the address returns, over
\* every order the map iteration may take, and whether each is returned once.
ReturnsOnce(addr, hashes) ==
    \E m \in {Mirror(txnsByAddr, addrsByTx)} :
       \A order \in TxnOrders(m, addr) :
          \E txns \in {UnconfirmedTxnsForAddress(m, addr, order)} :
             /\ {txns[i].hash : i \in 1..Len(txns)} = hashes
             /\ Len(txns) = Cardinality(hashes)
             /\ \A i \in 1..Len(txns) : txns[i].msgTx.outs = MempoolTxns[txns[i].hash].outs

\* Adding a transaction a second time changes nothing.
AddTwiceIsAddOnce ==
    \E m \in {Mirror(txnsByAddr, addrsByTx)} :
       \A hash \in DOMAIN MempoolTxns, known \in BOOLEAN :
          \E tx \in {MempoolTx(hash, known)} : \E once \in {AddUnconfirmedTx(m, tx)} :
             AddUnconfirmedTx(once, tx) = once

\* The transactions added and not removed since of which the given adds
\* ("recent" or "since") found the key of the address.
AddedFor(addr, which) ==
    IF addrToKey(addr).err # NoErr
    THEN {}
    ELSE {h \in DOMAIN added : addrToKey(addr).key \in added[h][which]}

\* C17 as stated: after any series of adds and removes made one at a time,
\* UnconfirmedTxnsForAddress(addr) returns exactly the transactions whose
\* most recent add found the key of addr and that were not removed since,
\* each once; adding a transaction twice is adding it once.
C17_MostRecentAdd ==
    /\ \A addr \in Addresses : ReturnsOnce(addr, AddedFor(addr, "recent"))
    /\ AddTwiceIsAddOnce

\* C17: after any series of adds and removes made one at a time,
\* UnconfirmedTxnsForAddress(addr) returns exactly the transactions of which
\* an add made since their last removal found the key of addr, each once;
\* adding a transaction twice with the same previous scripts is adding it once.
C17_AnyAddSinceRemoval ==
    /\ \A addr \in Addresses : ReturnsOnce(addr, AddedFor(addr, "since"))
    /\ AddTwiceIsAddOnce

\* A query for the script hash address has returned two transactions, one of
\* them added a second time with previous scripts that do not know the
\* output it spends.
C17_Witness ==
    /\ last.op = "unconfirmedFor" /\ last.addrKey = addrS
    /\ {last.entries[i].hash : i \in 1..Len(last.entries)} = {1, 3}
    /\ Len(last.entries) = 2
    /\ added[1].recent = {} /\ added[1].since = {addrS}

\* The address type code of an address that has one: that of its signature
\* scheme for a public key and a public key hash address, 3 for a script hash.
TypeCodeOf(addr) ==
    CASE addr.type \in {"AddressPubKeyEcdsaSecp256k1V0", "AddressPubKeyHashEcdsaSecp256k1V0"} -> 0
      [] addr.type \in {"AddressPubKeyEd25519V0", "AddressPubKeyHashEd25519V0"} -> 1
      [] addr.type \in {"AddressPubKeySchnorrSecp256k1V0",
                        "AddressPubKeyHashSchnorrSecp256k1V0"} -> 2
      [] addr.type = "AddressScriptHashV0" -> 3

\* C18: addrToKey gives two supported addresses the same 21-byte key exactly
\* when they have the same address type code and the same hash160: a public
\* key address gets the key of its public key hash form, a script hash and a
\* public key hash address with one hash160 get different keys, and every
\* other kind of address gets the unsupported address type error.  A query
\* looks under the key addrToKey gives, or returns nothing on that error.
C18_KeyIsTypeAndHash ==
    /\ \A a \in Addresses :
          IF a.type = "AddressOther"
          THEN addrToKey(a).err = errUnsupportedAddressType
          ELSE /\ addrToKey(a).err = NoErr
               /\ Len(addrToKey(a).key) = addrKeySize
               /\ addrToKey(a).key[1] = TypeCodeOf(a)
               /\ SubSeq(addrToKey(a).key, 2, addrKeySize) = Hash160(a.hash)
               /\ a.type \in PubKeyTypes
                  => addrToKey(a).key = addrToKey(AddressPubKeyHash(a)).key
               /\ \A b \in Addresses :
                     b.type # "AddressOther"
                     => ((addrToKey(a).key = addrToKey(b).key)
                         = (TypeCodeOf(a) = TypeCodeOf(b)
                            /\ Hash160(a.hash) = Hash160(b.hash)))
    /\ addrToKey(addrSH1).key # addrToKey(addrPKH1).key
    /\ last.op = "unconfirmedFor"
       => IF last.err = NoErr
          THEN /\ \E a \in Addresses : last.addrKey = addrKeyOf(TypeCodeOf(a), a.hash)
               /\ last.entries # << >> => last.addrKey \in DOMAIN txnsByAddr
          ELSE last.err = errUnsupportedAddressType /\ last.entries = << >>

\* A query under the public key hash key has returned a transaction found
\* through a public key address and one found through a public key hash
\* address, and the script hash key of the same hash160 holds another.
C18_Witness ==
    /\ last.op = "unconfirmedFor" /\ last.addrKey = addrToKey(addrPK1).key
    /\ {last.entries[i].hash : i \in 1..Len(last.entries)} = {2, 3}
    /\ addrS \in DOMAIN txnsByAddr /\ 1 \in DOMAIN txnsByAddr[addrS]
    /\ 1 \notin DOMAIN txnsByAddr[addrA]

\* C19: an append to an address whose level 0 holds fewer than 8 entries
\* writes the level 0 key only: its new value is the old value followed by
\* the 16 bytes of the new entry, and every other key is left as it was; so
\* the i-th of the first 7 appends to an empty address leaves the one key of
\* level 0, of 16*i bytes.
C19_FastPathWritesLevel0Only ==
    \A a \in AddrKeys :
       (last.op = "append" /\ last.addrKey = a
           /\ NumEntries(last.before, a, 0) < level0MaxEntries)
       => \E key0 \in {keyForLevel(a, 0)} : \E old \in {Get(last.before, key0)} :
             /\ DOMAIN bucket = (DOMAIN last.before) \cup {key0}
             /\ \A k \in (DOMAIN bucket) \ {key0} : bucket[k] = last.before[k]
             /\ Len(bucket[key0]) = Len(old) + txEntrySize
             /\ SubSeq(bucket[key0], 1, Len(old)) = old
             /\ EntriesIn(SubSeq(bucket[key0], Len(old) + 1, Len(old) + txEntrySize))
                   = << EntryOf(log[a][Len(log[a])]) >>
             /\ (fresh[a] /\ Len(log[a]) < level0MaxEntries)
                => /\ LevelsOf(bucket, a) = {0}
                   /\ Len(bucket[key0]) = txEntrySize * Len(log[a])

\* An append has found 7 entries in level 0 and 16 in level 1, and has left
\* 8 and 16.
C19_Witness ==
    /\ last.op = "append"
    /\ NumEntries(last.before, addrA, 0) = 7
    /\ NumEntries(last.before, addrA, 1) = 16
    /\ NumEntries(bucket, addrA, 0) = 8
    /\ NumEntries(bucket, addrA, 1) = 16

\* The entries of the records from the i-th to the j-th appended to an address.
EntriesOfLog(addrKey, i, j) == [n \in 1..(j - i + 1) |-> EntryOf(log[addrKey][n + i - 1])]

\* The entries a level of an address holds.
LevelEntries(b, addrKey, level) == EntriesIn(Get(b, keyForLevel(addrKey, level)))

\* C20 as stated: after the appends of e1..e17 to an empty address, level 0
\* holds 1 entry (e17), level 1 holds 8 entries (e9..e16), and there is no
\* level 2.
C20_Level1HoldsEight ==
    \A a \in AddrKeys :
       (fresh[a] /\ Len(log[a]) = 17)
       => /\ LevelEntries(bucket, a, 0) = EntriesOfLog(a, 17, 17)
          /\ LevelEntries(bucket, a, 1) = EntriesOfLog(a, 9, 16)
          /\ ~Has(bucket, keyForLevel(a, 2))

\* C20: after the appends of e1..e17 to an empty address, level 0 holds
\* 1 entry (e17), level 1 holds 16 entries (e1..e16), and there is no level 2.
C20_Level1HoldsSixteen ==
    \A a \in AddrKeys :
       (fresh[a] /\ Len(log[a]) = 17)
       => /\ LevelEntries(bucket, a, 0) = EntriesOfLog(a, 17, 17)
          /\ LevelEntries(bucket, a, 1) = EntriesOfLog(a, 1, 16)
          /\ ~Has(bucket, keyForLevel(a, 2))
          /\ LevelsOf(bucket, a) = {0, 1}

\* The 17th append to an empty address has returned; it found level 0 full
\* and 8 entries in level 1.
C20_Witness ==
    /\ fresh[addrA] /\ Len(log[addrA]) = 17 /\ last.op = "append"
    /\ NumEntries(last.before, addrA, 0) = 8
    /\ NumEntries(last.before, addrA, 1) = 8
    /\ Stored(bucket, addrA) = 17

\* C21 as stated: after the appends of e1..e25 to an empty address, level 0
\* holds 1 entry, level 1 holds 16 entries, and level 2 is empty.
C21_Level2StillEmpty ==
    \A a \in AddrKeys :
       (fresh[a] /\ Len(log[a]) = 25)
       => /\ NumEntries(bucket, a, 0) = 1
          /\ NumEntries(bucket, a, 1) = 16
          /\ NumEntries(bucket, a, 2) = 0

\* C21: after the appends of e1..e25 to an empty address, level 0 holds
\* 1 entry (e25), level 1 holds 8 entries (e17..e24), and level 2 holds
\* 16 entries (e1..e16).
C21_Level2HoldsSixteen ==
    \A a \in AddrKeys :
       (fresh[a] /\ Len(log[a]) = 25)
       => /\ LevelEntries(bucket, a, 0) = EntriesOfLog(a, 25, 25)
          /\ LevelEntries(bucket, a, 1) = EntriesOfLog(a, 17, 24)
          /\ LevelEntries(bucket, a, 2) = EntriesOfLog(a, 1, 16)
          /\ LevelsOf(bucket, a) = {0, 1, 2}

\* The 25th append to an empty address has returned; it found levels 0 and 1
\* full and no level 2.
C21_Witness ==
    /\ fresh[addrA] /\ Len(log[addrA]) = 25 /\ last.op = "append"
    /\ NumEntries(last.before, addrA, 0) = 8
    /\ NumEntries(last.before, addrA, 1) = 16
    /\ ~Has(last.before, keyForLevel(addrA, 2))
    /\ Stored(bucket, addrA) = 25

\* The highest level looked at: no address of at most MaxEntries + 1 entries
\* has a level this high.
TopLevel == 7

\* Whether a level of an address holds as many entries as it can.
IsFull(b, addrKey, level) == NumEntries(b, addrKey, level) = maxEntriesForLevel(level)

\* The lowest level from 1 on that is not full.
LowestNotFull(b, addrKey) ==
    CHOOSE l \in 1..TopLevel :
        ~IsFull(b, addrKey, l) /\ \A m \in 1..(l - 1) : IsFull(b, addrKey, m)

\* C22: when an append finds level 0 full and L >= 1 is the lowest level that
\* is not full, then after the append level L holds what it held followed by
\* what level L-1 held, every level m with 1 <= m < L holds what level m-1
\* held, level 0 holds the new entry only, and every level above L is as it
\* was; after e9, level 0 is e9 and level 1 is e1..e8.
C22_MergeCascade ==
    \A a \in AddrKeys :
       (last.op = "append" /\ last.addrKey = a /\ IsFull(last.before, a, 0))
       => \E L \in {LowestNotFull(last.before, a)} :
             /\ Get(bucket, keyForLevel(a, L)) =
                   Get(last.before, keyForLevel(a, L)) \o Get(last.before, keyForLevel(a, L - 1))
             /\ \A m \in 1..(L - 1) :
                   Get(bucket, keyForLevel(a, m)) = Get(last.before, keyForLevel(a, m - 1))
             /\ LevelEntries(bucket, a, 0) = << EntryOf(log[a][Len(log[a])]) >>
             /\ \A m \in (L + 1)..TopLevel :
                   /\ Has(bucket, keyForLevel(a, m)) = Has(last.before, keyForLevel(a, m))
                   /\ Get(bucket, keyForLevel(a, m)) = Get(last.before, keyForLevel(a, m))
             /\ (fresh[a] /\ Len(log[a]) = 9)
                => /\ LevelEntries(bucket, a, 0) = EntriesOfLog(a, 9, 9)
                   /\ LevelEntries(bucket, a, 1) = EntriesOfLog(a, 1, 8)

\* An append has found levels 0, 1 and 2 full and level 3 absent: three
\* levels have moved up.
C22_Witness ==
    /\ last.op = "append"
    /\ IsFull(last.before, addrA, 0) /\ IsFull(last.before, addrA, 1)
    /\ IsFull(last.before, addrA, 2)
    /\ LowestNotFull(last.before, addrA) = 3
    /\ NumEntries(bucket, addrA, 3) = 32
    /\ NumEntries(bucket, addrA, 1) = 8

\* The keys of the bucket that are level keys of the address.
KeysOf(b, addrKey) == {k \in DOMAIN b : \A i \in 1..addrKeySize : k[i] = addrKey[i]}

\* C23: the layout of an address is a function of its number of entries:
\* after any appends and removes that leave n entries, each level holds the
\* number of entries, and the bytes, it holds after the n entries are
\* appended one by one to an empty address.
C23_LayoutIsFunctionOfCount ==
    \A a \in AddrKeys :
       \E b \in {AppendMany(EmptyBucket, a, 1, Len(log[a]))} :
          /\ KeysOf(bucket, a) = KeysOf(b, a)
          /\ \A k \in KeysOf(b, a) : bucket[k] = b[k]
          /\ \A l \in 0..TopLevel : NumEntries(bucket, a, l) = NumEntries(b, a, l)

\* A remove has taken 9 entries from levels of 1, 8, 16 and 32 entries, and
\* has left levels of 8, 8 and 32 entries.
C23_Witness ==
    /\ last.op = "remove" /\ last.err = NoErr /\ last.count = 9
    /\ Stored(last.before, addrA) = 57
    /\ NumEntries(bucket, addrA, 0) = 8
    /\ NumEntries(bucket, addrA, 1) = 8
    /\ NumEntries(bucket, addrA, 2) = 32
    /\ ~Has(bucket, keyForLevel(addrA, 3))

\* C24: the levels of an address that have a key are the levels from 0 to
\* the highest: when there is any, level 0 is there with 1 to 8 entries and no
\* level below one that is there is missing, so that the loading loop of a
\* fetch, which stops at the first level missing, reaches every entry stored.
C24_GapFreeLevels ==
    \A a \in AddrKeys :
       \E levels \in {LevelsOf(bucket, a)} :
          levels # {}
          => /\ 0 \in levels
             /\ NumEntries(bucket, a, 0) \in 1..level0MaxEntries
             /\ \A l \in levels : \A m \in 0..(l - 1) : m \in levels
             /\ \E all \in {dbFetchAddrIndexEntries(bucket, a, U32Of(0),
                                                    U32Of(Len(log[a])), FALSE)} :
                   /\ all.err = NoErr
                   /\ all.entries = EntriesOfLog(a, 1, Len(log[a]))
                   /\ Len(all.entries) = Stored(bucket, a)

\* A remove has emptied levels 0 and 1 of an address with a level 2, and
\* the levels 0 to 2 are there afterwards.
C24_Witness ==
    /\ last.op = "remove" /\ last.err = NoErr
    /\ last.count = NumEntries(last.before, addrA, 0) + NumEntries(last.before, addrA, 1)
    /\ NumEntries(last.before, addrA, 1) > 0
    /\ NumEntries(last.before, addrA, 3) = 32
    /\ LevelsOf(bucket, addrA) = {0, 1, 2}

\* C25: every level key in the bucket has a value that is not empty and
\* whose length is a multiple of 16: a remove deletes the key of a level it
\* empties, and a remove of all the entries of an address leaves it no key.
C25_LevelValuesWholeEntries ==
    /\ \A k \in DOMAIN bucket :
          Len(bucket[k]) > 0 /\ Len(bucket[k]) % txEntrySize = 0
    /\ \A a \in AddrKeys :
          /\ (last.op = "remove" /\ last.addrKey = a /\ last.err = NoErr)
             => \A l \in 0..TopLevel :
                   NumEntries(bucket, a, l) = 0 => ~Has(bucket, keyForLevel(a, l))
          /\ (last.op = "remove" /\ last.addrKey = a /\ last.count >= 1
                 /\ last.count = Stored(last.before, a))
             => last.err = NoErr /\ KeysOf(bucket, a) = {}

\* A remove has taken all 25 entries of an address with three levels.
C25_Witness ==
    /\ last.op = "remove" /\ last.err = NoErr /\ last.count = 25
    /\ LevelsOf(last.before, addrA) = {0, 1, 2}
    /\ Stored(last.before, addrA) = 25
    /\ DOMAIN bucket = {}

\* C26: a remove of 1 <= count < n entries, n the number of entries in level 0,
\* cuts the last count entries off level 0 and nothing else: every level from
\* 1 on is as it was, and is not written.
C26_SmallRemoveTouchesLevel0Only ==
    \A a \in AddrKeys :
       (last.op = "remove" /\ last.addrKey = a /\ last.count >= 1
           /\ last.count < NumEntries(last.before, a, 0))
       => \E key0 \in {keyForLevel(a, 0)} : \E old \in {Get(last.before, key0)} :
             /\ last.err = NoErr
             /\ DOMAIN bucket = DOMAIN last.before
             /\ bucket[key0] = SubSeq(old, 1, Len(old) - last.count * txEntrySize)
             /\ \A k \in (DOMAIN bucket) \ {key0} : bucket[k] = last.before[k]
             /\ DOMAIN removeTrim(last.before, a, 0, last.count, << >>, 0).pendingUpdates = {0}

\* A remove has taken 2 of the 7 entries of level 0 of an address with
\* entries in levels 1 and 2.
C26_Witness ==
    /\ last.op = "remove" /\ last.err = NoErr /\ last.count = 2
    /\ NumEntries(last.before, addrA, 0) = 7
    /\ NumEntries(bucket, addrA, 0) = 5
    /\ NumEntries(bucket, addrA, 1) = 8
    /\ NumEntries(bucket, addrA, 2) = 16

\* ------------------------------------------------------ two addresses

\* The largest number of entries of each of two addresses.
MaxTwoEntries == 10

\* Two address keys that differ in the type byte only.
TwoAddrKeys == {addrA, addrS}

\* The counts removed from one of two addresses.
TwoRemoveCounts == {1, 2, 9}

InitTwo ==
    /\ bucket = EmptyBucket
    /\ log = [a \in TwoAddrKeys |-> << >>]
    /\ fresh = [a \in TwoAddrKeys |-> TRUE]
    /\ last = NoCall
    /\ InitIdx

\* Appends, removes and queries of two addresses in any order.
NextTwo ==
    \E addrKey \in TwoAddrKeys :
        \/ /\ Len(log[addrKey]) < MaxTwoEntries
           /\ AppendEntry(addrKey)
        \/ \E count \in TwoRemoveCounts : RemoveEntries(addrKey, count)
        \/ /\ last.op # "fetch"
           /\ \E numToSkip \in SkipVals(Len(log[addrKey])),
                 numRequested \in WantVals(Len(log[addrKey])),
                 reverse \in BOOLEAN :
                   FetchEntries(addrKey, numToSkip, numRequested, reverse)

SpecTwo == InitTwo /\ [][NextTwo]_vars

\* The part of the bucket that holds the levels of an address.
LevelsPart(b, addrKey) == [k \in KeysOf(b, addrKey) |-> b[k]]

\* C27: an append, a remove or a fetch of one address key reads, writes and
\* deletes no level key of another: whatever the order of the calls for two
\* addresses, the levels of each and what its calls return are what they are
\* when the calls for the other address are not made.
C27_AddressesAreApart ==
    \A a \in TwoAddrKeys :
       \E alone \in {AppendMany(EmptyBucket, a, 1, Len(log[a]))} :
          /\ LevelsPart(bucket, a) = alone
          /\ \A other \in TwoAddrKeys \ {a} :
                last.addrKey = a /\ last.op # "none"
                => LevelsPart(bucket, other) = LevelsPart(last.before, other)
          /\ (last.op = "fetch" /\ last.addrKey = a)
             => [entries |-> last.entries, skipped |-> last.skipped, err |-> last.err]
                   = dbFetchAddrIndexEntries(alone, a, last.skip, last.want, last.reverse)
          /\ (last.op = "remove" /\ last.addrKey = a)
             => \E r \in {dbRemoveAddrIndexEntries(LevelsPart(last.before, a), a, last.count)} :
                   r.err = last.err /\ r.bucket = alone
          /\ (last.op = "append" /\ last.addrKey = a)
             => \E in \in {log[a][Len(log[a])]} :
                   dbPutAddrIndexEntry(LevelsPart(last.before, a), a, in.blockID, in.txLoc,
                                       in.blockIndex) = alone

\* An append to one address has moved its level 0 up to level 1 while the
\* other address has entries in levels 0 and 1, after a remove from each.
C27_Witness ==
    /\ last.op = "append" /\ last.addrKey = addrS
    /\ NumEntries(last.before, addrS, 0) = 8
    /\ LevelsOf(bucket, addrS) = {0, 1}
    /\ LevelsOf(bucket, addrA) = {0, 1}
    /\ Stored(bucket, addrA) = 10
    /\ ~fresh[addrA] /\ ~fresh[addrS]

\* ------------------------------------------- a remove, loop by loop

\* squashNextLevel that stays at the level.
squashNextLevelStay(level) == level

\* The level the squash loop goes to after a level.
squashNextLevel(level) == level - 1

\* A call of dbRemoveAddrIndexEntries with a count of 1 or more begins.
RemoveStart(addrKey, count) ==
    /\ rm.pc = "idle"
    /\ count >= 1
    /\ rm' = [NoRemove EXCEPT !.pc = "trim", !.addrKey = addrKey, !.count = count,
                              !.numRemaining = count]
    /\ last' = [NoCall EXCEPT !.op = "removing", !.addrKey = addrKey, !.count = count,
                              !.before = bucket]
    /\ UNCHANGED << bucket, log, fresh, idxVars, calls, chainVars >>

\* The call returns err, after applyPending when err is nil.
RemoveReturns(pendingUpdates, err) ==
    \E b \in {IF err = NoErr THEN applyPending(bucket, rm.addrKey, pendingUpdates)
                             ELSE bucket} :
       /\ bucket' = b
       /\ log' = IF err = NoErr
                 THEN [log EXCEPT ![rm.addrKey] = SubSeq(@, 1, Len(@) - rm.count)]
                 ELSE log
       /\ fresh' = [fresh EXCEPT ![rm.addrKey] = (LevelsOf(b, rm.addrKey) = {})]
       /\ last' = [last EXCEPT !.op = "remove", !.err = err]
       /\ rm' = NoRemove
       /\ UNCHANGED << idxVars, calls, chainVars >>

\* The statements between the first loop and the second.
RemoveAfterTrim(pendingUpdates, highestLoadedLevel) ==
    IF Len(PendingGet(pendingUpdates, 0)) # 0
    THEN RemoveReturns(pendingUpdates, NoErr)
    ELSE /\ rm' = [rm EXCEPT !.pc = "squash", !.pendingUpdates = pendingUpdates,
                             !.highestLoadedLevel = highestLoadedLevel,
                             !.lowestEmptyLevel = 255,
                             !.curLevelData = PendingGet(pendingUpdates, highestLoadedLevel),
                             !.curLevelMaxEntries = maxEntriesForLevel(highestLoadedLevel),
                             !.level = highestLoadedLevel]
         /\ UNCHANGED << bucket, log, fresh, last, idxVars, calls, chainVars >>

\* One pass of the loop that removes entries level by level, or its end.
RemoveTrimStep ==
    /\ rm.pc = "trim"
    /\ IF rm.numRemaining > 0
       THEN LET curLevelData == Get(bucket, keyForLevel(rm.addrKey, rm.level))
                numEntries == Len(curLevelData) \div txEntrySize
            IN IF Len(curLevelData) = 0
               THEN RemoveReturns(rm.pendingUpdates, ErrAssert)
               ELSE IF rm.numRemaining >= numEntries
               THEN /\ rm' = [rm EXCEPT !.pendingUpdates = PendingSet(@, rm.level, << >>),
                                        !.highestLoadedLevel = rm.level,
                                        !.numRemaining = @ - numEntries,
                                        !.level = @ + 1]
                    /\ UNCHANGED << bucket, log, fresh, last, idxVars, calls, chainVars >>
               ELSE RemoveAfterTrim(
                        PendingSet(rm.pendingUpdates, rm.level,
                                   Slice(curLevelData, 0,
                                         removeOffsetEnd(curLevelData, rm.numRemaining))),
                        rm.level)
       ELSE RemoveAfterTrim(rm.pendingUpdates, rm.highestLoadedLevel)

\* One pass of the loop that squashes what is left into the lowest possible
\* levels, or its end.
RemoveSquashStep ==
    /\ rm.pc = "squash"
    /\ IF rm.level > 0
       THEN LET numEntries == Len(rm.curLevelData) \div txEntrySize
                prevLevelMaxEntries == rm.curLevelMaxEntries \div 2
                minPrevRequired == minEntriesToReachLevel(rm.level - 1)
                offset == squashOffset(numEntries, rm.curLevelMaxEntries,
                                       prevLevelMaxEntries, minPrevRequired)
            IN rm' = IF numEntries < prevLevelMaxEntries + minPrevRequired
                     THEN [rm EXCEPT !.lowestEmptyLevel = rm.level,
                                     !.pendingUpdates = PendingSet(@, rm.level, << >>),
                                     !.curLevelMaxEntries = prevLevelMaxEntries,
                                     !.level = squashNextLevel(rm.level)]
                     ELSE [rm EXCEPT !.pendingUpdates =
                                         PendingSet(@, rm.level, Slice(rm.curLevelData, 0, offset)),
                                     !.curLevelData =
                                         Slice(rm.curLevelData, offset, Len(rm.curLevelData)),
                                     !.curLevelMaxEntries = prevLevelMaxEntries,
                                     !.level = squashNextLevel(rm.level)]
       ELSE rm' = [rm EXCEPT !.pc = "backfill",
                             !.pendingUpdates = PendingSet(@, 0, rm.curLevelData),
                             !.lowestEmptyLevel = IF Len(rm.curLevelData) = 0 THEN 0 ELSE @]
    /\ UNCHANGED << bucket, log, fresh, last, idxVars, calls, chainVars >>

\* One pass of the loop that backfills while the highest loaded level is
\* empty, or its end.
RemoveBackfillStep ==
    /\ rm.pc = "backfill"
    /\ IF Len(PendingGet(rm.pendingUpdates, rm.highestLoadedLevel)) = 0
       THEN LET level == rm.highestLoadedLevel + 1
                levelData == Get(bucket, keyForLevel(rm.addrKey, level))
                curLevelMaxEntries == maxEntriesForLevel(level)
                half == (Len(levelData) \div txEntrySize) # curLevelMaxEntries
                loaded == PendingSet(rm.pendingUpdates, level, levelData)
                moved == IF half
                         THEN PendingSet(PendingSet(loaded, level, << >>), level - 1, levelData)
                         ELSE loaded
            IN IF Len(levelData) = 0
               THEN RemoveReturns(rm.pendingUpdates, NoErr)
               ELSE /\ rm' = [rm EXCEPT !.pendingUpdates =
                                            removeHalve(IF half THEN level - 1 ELSE level, moved,
                                                        levelData,
                                                        IF half THEN curLevelMaxEntries \div 2
                                                                ELSE curLevelMaxEntries,
                                                        rm.lowestEmptyLevel),
                                        !.highestLoadedLevel = level,
                                        !.lowestEmptyLevel = level]
                    /\ UNCHANGED << bucket, log, fresh, last, idxVars, calls, chainVars >>
       ELSE RemoveReturns(rm.pendingUpdates, NoErr)

\* A step of the call in progress.
RemoveStep == RemoveTrimStep \/ RemoveSquashStep \/ RemoveBackfillStep

\* Appends, and removes of every count from 1 to one more than the address
\* holds, made a loop pass at a time.
NextRemove ==
    \/ \E addrKey \in AddrKeys : rm.pc = "idle" /\ AppendEntry(addrKey)
    \/ \E addrKey \in AddrKeys : \E count \in 1..(Len(log[addrKey]) + 1) :
          RemoveStart(addrKey, count)
    \/ RemoveTrimStep
    \/ RemoveSquashStep
    \/ RemoveBackfillStep

\* A call in progress is not held up for ever.
SpecRemove == Init /\ [][NextRemove]_vars /\ WF_vars(RemoveStep)

\* C28: from every state that appends and removes lead to, and for every
\* count of 1 or more, a remove returns: the loop that removes, the loop that
\* squashes and the loop that backfills all end, with the result of
\* dbRemoveAddrIndexEntries.
C28_RemoveTerminates ==
    /\ (rm.pc # "idle") ~> (rm.pc = "idle")
    /\ [](last.op = "remove"
          => \E r \in {dbRemoveAddrIndexEntries(last.before, last.addrKey, last.count)} :
                r.err = last.err /\ r.bucket = bucket)

\* A remove that went through all three loops has returned: it emptied
\* levels 0, 1 and 2, and the levels were backfilled from level 3.
C28_Witness ==
    /\ last.op = "remove" /\ last.err = NoErr /\ rm.pc = "idle"
    /\ last.count = 25
    /\ NumEntries(last.before, addrA, 0) + NumEntries(last.before, addrA, 1) = 9
    /\ NumEntries(last.before, addrA, 2) = 16
    /\ NumEntries(last.before, addrA, 3) = 32
    /\ Stored(bucket, addrA) = 32

\* ------------------------------- unconfirmed index, calls in parallel

\* The address keys indexUnconfirmedAddresses takes the lock for, in order.
scriptAddrKeys(pkScript, isSStx) ==
    LET addrs == IF isSStx /\ pkScript.class = "nulldata"
                 THEN IF pkScript.commit = NoAddr
                      THEN << >>
                      ELSE pkScript.addrs \o pkScript.commit
                 ELSE pkScript.addrs
        Supported(addr) == addrToKey(addr).err = NoErr
        supported == SelectSeq(addrs, Supported)
    IN [i \in 1..Len(supported) |-> addrToKey(supported[i]).key]

\* The address keys a call of AddUnconfirmedTx takes the lock for, in order,
\* from the i-th input and then the j-th output on.
RECURSIVE txAddrKeys(_, _, _)
txAddrKeys(tx, i, j) ==
    IF i <= Len(tx.msgTx.ins)
    THEN (IF (i = 1 /\ tx.msgTx.kind = "ssgen") \/ ~tx.msgTx.ins[i].ok
          THEN << >>
          ELSE scriptAddrKeys(tx.msgTx.ins[i].pkScript, FALSE))
         \o txAddrKeys(tx, i + 1, j)
    ELSE IF j <= Len(tx.msgTx.outs)
    THEN scriptAddrKeys(tx.msgTx.outs[j], tx.msgTx.kind = "sstx") \o txAddrKeys(tx, i, j + 1)
    ELSE << >>

\* Whether unconfirmedLock can be taken for writing, and for reading.
CanLock == calls.writer = 0 /\ calls.readers = {}

CanRLock == calls.writer = 0

\* The lock released right after the write of txnsByAddr.
releasedAfterTxnsByAddr(t) == 0

\* Who holds the lock for writing between the write of txnsByAddr and that
\* of addrsByTx: the thread that took it.
heldAfterTxnsByAddr(t) == t

\* A thread calls AddUnconfirmedTx; the call returns at once when there is no
\* address to index.
AddBegin(t, hash) ==
    /\ calls.thread[t].pc = "idle"
    /\ \E keys \in {txAddrKeys(MempoolTx(hash, TRUE), 1, 1)} :
          calls' = [calls EXCEPT !.thread[t] =
                       IF keys = << >>
                       THEN IdleThread
                       ELSE [IdleThread EXCEPT !.pc = "add", !.op = "add", !.hash = hash,
                                               !.known = TRUE, !.addrKeys = keys]]
    /\ UNCHANGED << bucket, log, fresh, last, txnsByAddr, addrsByTx, added, rm, chainVars >>

\* indexUnconfirmedAddresses takes the lock for the next address.
AddLock(t) ==
    /\ calls.thread[t].pc = "add"
    /\ CanLock
    /\ calls' = [calls EXCEPT !.writer = t, !.thread[t].pc = "addByAddr"]
    /\ UNCHANGED << bucket, log, fresh, last, txnsByAddr, addrsByTx, added, rm, chainVars >>

\* The mapping from the address to the transaction is added.
AddByAddr(t) ==
    /\ calls.thread[t].pc = "addByAddr"
    /\ \E th \in {calls.thread[t]} :
          txnsByAddr' = insertTxnsByAddr(txnsByAddr, th.addrKeys[1],
                                         MempoolTx(th.hash, th.known))
    /\ calls' = [calls EXCEPT !.writer = heldAfterTxnsByAddr(t),
                              !.thread[t].pc = "addByTx"]
    /\ UNCHANGED << bucket, log, fresh, last, addrsByTx, added, rm, chainVars >>

\* The mapping from the transaction to the address is added, and the lock
\* is released; the call returns after the last address.
AddByTx(t) ==
    /\ calls.thread[t].pc = "addByTx"
    /\ \E th \in {calls.thread[t]} :
          /\ addrsByTx' = insertAddrsByTx(addrsByTx, th.addrKeys[1],
                                          MempoolTx(th.hash, th.known))
          /\ calls' = [calls EXCEPT !.writer = 0,
                                    !.thread[t] =
                                        IF Len(th.addrKeys) = 1
                                        THEN IdleThread
                                        ELSE [th EXCEPT !.pc = "add",
                                                        !.addrKeys = Tail(th.addrKeys)]]
    /\ UNCHANGED << bucket, log, fresh, last, txnsByAddr, added, rm, chainVars >>

\* RemoveUnconfirmedTx takes the lock; the loop will take the addresses of
\* the transaction in some order.
RemoveLock(t, hash) ==
    /\ calls.thread[t].pc = "idle"
    /\ CanLock
    /\ \E order \in Orders(IF hash \in DOMAIN addrsByTx THEN addrsByTx[hash] ELSE {}) :
          calls' = [calls EXCEPT !.writer = t,
                                 !.thread[t] = [IdleThread EXCEPT !.pc = "remove",
                                                                  !.op = "remove",
                                                                  !.hash = hash,
                                                                  !.addrKeys = order]]
    /\ UNCHANGED << bucket, log, fresh, last, txnsByAddr, addrsByTx, added, rm, chainVars >>

\* One pass of the loop of RemoveUnconfirmedTx.
RemoveAddr(t) ==
    /\ calls.thread[t].pc = "remove"
    /\ calls.thread[t].addrKeys # << >>
    /\ \E th \in {calls.thread[t]} :
       \E inner \in {Delete(Get(txnsByAddr, th.addrKeys[1]), th.hash)} :
          /\ txnsByAddr' = IF DOMAIN inner = {}
                           THEN Delete(txnsByAddr, th.addrKeys[1])
                           ELSE Put(txnsByAddr, th.addrKeys[1], inner)
          /\ calls' = [calls EXCEPT !.thread[t].addrKeys = Tail(th.addrKeys)]
    /\ UNCHANGED << bucket, log, fresh, last, addrsByTx, added, rm, chainVars >>

\* The entry of the transaction is deleted, the lock is released, the call
\* returns.
RemoveUnlock(t) ==
    /\ calls.thread[t].pc = "remove"
    /\ calls.thread[t].addrKeys = << >>
    /\ addrsByTx' = Delete(addrsByTx, calls.thread[t].hash)
    /\ calls' = [calls EXCEPT !.writer = 0, !.thread[t] = IdleThread]
    /\ last' = [NoCall EXCEPT !.op = "removeUnconfirmed", !.count = calls.thread[t].hash]
    /\ UNCHANGED << bucket, log, fresh, txnsByAddr, added, rm, chainVars >>

\* The addresses queried by threads in parallel.
QueriedAddrs == {addrPK1, addrSH1}

\* UnconfirmedTxnsForAddress takes the lock for reading.
QueryRLock(t, addr) ==
    /\ calls.thread[t].pc = "idle"
    /\ addrToKey(addr).err = NoErr
    /\ CanRLock
    /\ calls' = [calls EXCEPT !.readers = @ \cup {t},
                              !.thread[t] = [IdleThread EXCEPT !.pc = "query",
                                                               !.op = "query",
                                                               !.addrKey = addrToKey(addr).key]]
    /\ UNCHANGED << bucket, log, fresh, last, txnsByAddr, addrsByTx, added, rm, chainVars >>

\* The transactions of the address are copied, the lock is released, the
\* call returns.
QueryRead(t) ==
    /\ calls.thread[t].pc = "query"
    /\ \E seen \in {DOMAIN Get(txnsByAddr, calls.thread[t].addrKey)} :
          /\ calls' = [calls EXCEPT !.readers = @ \ {t},
                                    !.thread[t] = [IdleThread EXCEPT !.seen = seen]]
          /\ last' = [NoCall EXCEPT !.op = "unconfirmedFor",
                                    !.addrKey = calls.thread[t].addrKey,
                                    !.count = Cardinality(seen)]
    /\ UNCHANGED << bucket, log, fresh, txnsByAddr, addrsByTx, added, rm, chainVars >>

\* The calls of the unconfirmed index by threads in parallel, a step at a time.
NextParallel ==
    \E t \in Threads :
        \/ \E hash \in DOMAIN MempoolTxns : AddBegin(t, hash)
        \/ AddLock(t)
        \/ AddByAddr(t)
        \/ AddByTx(t)
        \/ \E hash \in DOMAIN MempoolTxns : RemoveLock(t, hash)
        \/ RemoveAddr(t)
        \/ RemoveUnlock(t)
        \/ \E addr \in QueriedAddrs : QueryRLock(t, addr)
        \/ QueryRead(t)

SpecParallel == Init /\ [][NextParallel]_vars

\* C29: whatever the order of the steps of calls made in parallel, whenever
\* unconfirmedLock is not held for writing the two maps mirror each other: a
\* transaction hash is in the inner map of an address key exactly when the
\* address key is in the set of the hash, and no inner map is empty.
C29_MapsMirrorEachOther ==
    calls.writer = 0
    => /\ \A k \in DOMAIN txnsByAddr :
             /\ DOMAIN txnsByAddr[k] # {}
             /\ \A h \in DOMAIN txnsByAddr[k] :
                   h \in DOMAIN addrsByTx /\ k \in addrsByTx[h]
       /\ \A h \in DOMAIN addrsByTx :
             \A k \in addrsByTx[h] :
                k \in DOMAIN txnsByAddr /\ h \in DOMAIN txnsByAddr[k]

\* The lock is free while an add of the ticket has indexed one address and
\* not yet the other, after a remove of the ticket by another thread has
\* returned: the transaction is in neither map.
C29_Witness ==
    /\ calls.writer = 0
    /\ \E t \in Threads :
          /\ calls.thread[t].pc = "add" /\ calls.thread[t].hash = 3
          /\ Len(calls.thread[t].addrKeys) < Len(txAddrKeys(MempoolTx(3, TRUE), 1, 1))
    /\ last.op = "removeUnconfirmed" /\ last.count = 3
    /\ 3 \notin DOMAIN addrsByTx
    /\ DOMAIN txnsByAddr = {addrS}

\* The address keys a transaction is recorded under.
RecordedUnder(hash) == {k \in DOMAIN txnsByAddr : hash \in DOMAIN txnsByAddr[k]}

\* Whether every transaction is recorded under all of its addresses or none.
AllOrNone ==
    \A hash \in DOMAIN MempoolTxns :
       RecordedUnder(hash) \in {{}, Discovered(MempoolTx(hash, TRUE))}

\* C30: AddUnconfirmedTx is atomic for the calls made in parallel with it:
\* no call that holds the lock for reading finds a transaction recorded
\* under some of its addresses only, and once the calls have returned, a
\* RemoveUnconfirmedTx that started after the add among them, every
\* transaction is recorded under all of its addresses or under none.
C30_AddIsAtomic ==
    /\ (\E t \in Threads : calls.thread[t].pc = "query") => AllOrNone
    /\ (\A t \in Threads : calls.thread[t].pc = "idle") => AllOrNone

\* What indexBlock makes of each of the blocks.
BlockData ==
    [shape \in 1..Len(Blocks) |-> indexBlock(Blocks[shape].block, Blocks[shape].treasury)]

\* The entries of an address key that a block is to have in the index: for
\* each transaction index of the key, the location of the transaction among
\* the regular ones, or among the stake ones for an index from the number of
\* regular transactions on, and its index in that tree.
EntriesOfBlock(hash, addrKey) ==
    LET blk == ShapeOf(hash)
        regularCount == Len(blk.block.Transactions)
        data == BlockData[hash % 16]
        txIdxs == IF addrKey \in DOMAIN data THEN data[addrKey] ELSE << >>
        Loc(txIdx) == IF txIdx < regularCount
                      THEN TxLocs(blk.block)[txIdx + 1]
                      ELSE StakeTxLocs(blk.block)[txIdx - regularCount + 1]
    IN [i \in 1..Len(txIdxs) |->
           [BlockRegion |-> [Hash |-> BlockHashByID(BlockIDOf(hash)),
                             Offset |-> Loc(txIdxs[i]).TxStart,
                             Len |-> Loc(txIdxs[i]).TxLen],
            BlockIndex |-> IF txIdxs[i] < regularCount
                           THEN txIdxs[i]
                           ELSE txIdxs[i] - regularCount]]

\* The entries of an address key for the first n blocks of the chain.
RECURSIVE EntriesOfChain(_, _)
EntriesOfChain(addrKey, n) ==
    IF n = 0
    THEN << >>
    ELSE EntriesOfChain(addrKey, n - 1) \o EntriesOfBlock(chain[n], addrKey)

\* C31: a connect stores, for each address key and transaction index that
\* indexBlock produces, one entry with the location regularLocs[txIdx] and
\* the index txIdx when txIdx is below the number of regular transactions,
\* and with stakeLocs[txIdx - regularCount] and txIdx - regularCount
\* otherwise; a disconnect of the block removes from each address as many
\* entries as the connect appended: the index holds the entries of the
\* blocks connected, and no others.
C31_ConnectEntryLocations ==
    \A k \in (DOMAIN log) \cup (DOMAIN ntfn.data) \cup {addrA, addrS} :
       \E es \in {Logical(bucket, k)} :
          /\ es = EntriesOfChain(k, Len(chain))
          /\ (ntfn.type = "connect" /\ ntfn.err = NoErr /\ k \in DOMAIN ntfn.data)
             => /\ Len(es) >= Len(ntfn.data[k])
                /\ SubSeq(es, Len(es) - Len(ntfn.data[k]) + 1, Len(es))
                      = EntriesOfBlock(ntfn.block, k)

\* A block with stake transactions was connected on top of another and has
\* been disconnected again: the address had 8 entries in it, 4 of them of
\* stake transactions.
C31_Witness ==
    /\ ntfn.type = "disconnect" /\ ntfn.stepErr = NoErr
    /\ addrA \in DOMAIN ntfn.data
    /\ Len(ntfn.data[addrA]) = 8
    /\ Len(chain) = 1
    /\ Stored(bucket, addrA) = Len(EntriesOfBlock(chain[1], addrA))
    /\ Stored(bucket, addrA) > 0

\* C32: whenever ProcessNotification returns no error for a connect or a
\* disconnect notification, the block the spend consumer was told is its tip
\* is the block that connectBlock or disconnectBlock wrote as the index tip:
\* the block of a connect, the parent of the block of a disconnect.
C32_ConsumerTipIsIndexTip ==
    (ntfn.type \in {"connect", "disconnect"} /\ ntfn.err = NoErr)
    => /\ tip = dbTip
       /\ tip = IF ntfn.type = "connect"
                THEN ntfn.block
                ELSE IF chain = << >> THEN GenesisBlock ELSE chain[Len(chain)]

====
